---- MODULE Spec2Model ----
(***************************************************************************)
(* A model of the consumer portal's consent-permission saves (the Consent  *)
(* page, the Providers page and the provider access modal they share) and  *)
(* of its two authentication facades (the legacy REST facade and the       *)
(* platform facade), with the route guards and the sidebar's logout; of    *)
(* the CarePlanner page's reminder toggles; and of the REST service's      *)
(* verification e-mail resend.                                             *)
(*                                                                         *)
(* Every handler is an async function: it is cut at its awaits, one action *)
(* per segment between two awaits.  What a request to the platform backend *)
(* or to the REST API answers is an input of the step that receives it.    *)
(***************************************************************************)
EXTENDS Naturals, FiniteSets, Sequences, TLC

VARIABLES
  \* ---- platform backend and platform client
  providerRows,     \* table providers: the ids of its rows
  consents,         \* table user_provider_consents, the rows of the signed-in user
  otherConsents,    \* the same table: the providers another user holds a record for
  providerOwner,    \* providers.user_id, per provider: "me" (the signed-in user) | "other"
  providerDataTypes, \* table provider_data_types: the providers that have rows in it
  clientSession,    \* the platform client's own session (what auth.getUser answers from)
  \* ---- the mounted page (Consent or Providers) and the modal it hosts
  page,             \* "consent" | "providers"
  providers,        \* Consent: useState<Provider[]> (part_008:21)
  providersList,    \* Providers: useState<Provider[]> (Providers.tsx:26)
  selectedProvider, \* the id of the provider object handed to the modal, or NoProvider
  isModalOpen,      \* isModalOpen / isAccessModalOpen
  pageLoading,      \* the page's loading flag
  pageError,        \* Providers: error (Consent never sets its own after the fetch)
  alert,            \* the message the step just taken showed with alert(), or Null
  modal,            \* ProviderAccessModal's state once mounted
  tg,               \* the Consent.handlePermissionToggle call in flight
  sv,               \* the modal's handleSaveChanges or handleDelete call in flight
  refetch,          \* Consent: a fetchProviders() call that nobody awaits is in flight
  succession,       \* history: the page toggles that succeeded one after the other
  \* ---- browser and router
  storage,          \* localStorage: key -> value, Absent when the key is not set
  location,         \* the router's current path
  \* ---- legacy facade (AuthProvider)
  lgUser, lgLoading, lgError,
  lgInit,           \* the mount check (checkAuthStatus): "pending" | "done"
  lgOps,            \* per operation: the request and its timeout timer
  \* ---- platform facade (SupabaseAuthProvider)
  sbUser, sbSession, sbLoading, sbError,
  sbInit,           \* initializeAuth's position
  sbSubscribed,     \* onAuthStateChange callback registered
  sbOps,            \* signIn / signUp calls in flight
  \* ---- Sidebar.handleLogout
  hl,
  \* ---- the promise of a facade's login call
  settlement,       \* how the step just taken settled a login call for its caller
  \* ---- Login screen
  submitError,      \* Login: what handleSubmit's setError was called with in the step just
                    \* taken ('' when it cleared the error), Null when it was not called
  submitSuccess,    \* Login: the same for handleSubmit's setSuccess
  \* ---- services/auth.ts
  response,         \* the Response handed to handleResponse
  handled,          \* what handleResponse did with it, NotHandled before the call
  \* ---- CarePlanner
  reminderToggles,  \* useState<Record<string, boolean>> (CarePlanner.tsx:58)
  tr,               \* the toggleReminder calls in flight
  \* ---- authService.resendVerification
  clock,            \* Date.now(), in ms
  stamps,           \* localStorage keys verification_<email>: email -> the time stored
  rs,               \* the resendVerification calls in flight
  delivered         \* history: email -> when the last request that succeeded was sent

consentVars == <<providerRows, consents, page, providers, providersList, selectedProvider,
                 isModalOpen, pageLoading, pageError, alert, modal, tg, sv,
                 refetch, succession>>
plannerVars == <<reminderToggles, tr>>
backendVars == <<otherConsents, providerOwner, providerDataTypes>>
resendVars == <<clock, stamps, rs, delivered>>
apiVars == <<response, handled, plannerVars, backendVars, resendVars>>
authVars == <<storage, location, lgUser, lgLoading, lgError, lgInit, lgOps,
              sbUser, sbSession, sbLoading, sbError, sbInit, sbSubscribed, sbOps, hl,
              settlement, submitError, submitSuccess, apiVars>>
vars == <<providerRows, consents, clientSession, page, providers, providersList,
          selectedProvider, isModalOpen, pageLoading, pageError, alert, modal, tg, sv,
          refetch, succession, storage, location, lgUser, lgLoading, lgError, lgInit, lgOps,
          sbUser, sbSession, sbLoading, sbError, sbInit, sbSubscribed, sbOps, hl,
          settlement, submitError, submitSuccess,
          response, handled, reminderToggles, tr,
          otherConsents, providerOwner, providerDataTypes, clock, stamps, rs, delivered>>

----------------------------------------------------------------------------
(* Consent records and permissions                                          *)

ProviderIds == {"p1"}
PermKeys == {"labResults", "medications", "fitnessData"}
Permissions == [PermKeys -> BOOLEAN]
NoPermissions == [k \in PermKeys |-> FALSE]
NoProvider == "no provider"
NoTable == [p \in {} |-> FALSE]
Null == "null"

\* Object.values(permissions).some(Boolean)
hasAnyPermissions(permissions) == \E k \in DOMAIN permissions : permissions[k]

\* variant of dbPermissions in which approved follows labResults alone
dbPermissionsLabOnly(permissions) ==
  [lab_results  |-> permissions["labResults"],
   medications  |-> permissions["medications"],
   fitness_data |-> permissions["fitnessData"],
   approved     |-> permissions["labResults"]]

\* "Map to database column names": the row every save writes
dbPermissions(permissions) ==
  [lab_results  |-> permissions["labResults"],
   medications  |-> permissions["medications"],
   fitness_data |-> permissions["fitnessData"],
   approved     |-> hasAnyPermissions(permissions)]

\* variant of togglePermission that switches the flag on whatever it was
togglePermissionOn(permissions, permission) ==
  [permissions EXCEPT ![permission] = TRUE]

\* variant of togglePermission that drops the other flags
togglePermissionAlone(permissions, permission) ==
  [k \in DOMAIN permissions |-> k = permission /\ ~permissions[permission]]

\* { ...provider.permissions, [permission]: !provider.permissions[permission] }
togglePermission(permissions, permission) ==
  [permissions EXCEPT ![permission] = ~permissions[permission]]

\* the table holds a row for (user, provider) exactly when the provider is in its domain
hasRow(table, providerId) == providerId \in DOMAIN table

\* supabaseData.getProviders: the permissions a provider is listed with
listedPermissions(table, providerId) ==
  IF ~hasRow(table, providerId) THEN NoPermissions
  ELSE [k \in PermKeys |->
          CASE k = "labResults"  -> table[providerId].lab_results
            [] k = "medications" -> table[providerId].medications
            [] k = "fitnessData" -> table[providerId].fitness_data]

accessStatus(permissions) ==
  IF hasAnyPermissions(permissions) THEN "Granted" ELSE "Disconnected"

\* Consent.fetchProviders: the page's entry for a provider
consentEntry(permissions) ==
  [permissions |-> permissions, accessStatus |-> accessStatus(permissions)]

\* .update(row).eq(user_id).eq(provider_id): rewrites the row when there is one,
\* and changes nothing (and reports no error) when there is none
updateRow(table, providerId, row) ==
  IF hasRow(table, providerId) THEN [table EXCEPT ![providerId] = row] ELSE table

\* variant of insertFails for a table without the primary key
insertFailsNever(table, providerId) == FALSE

\* .insert(row): the primary key (user_id, provider_id) rejects a second row
insertFails(table, providerId) == hasRow(table, providerId)

insertRow(table, providerId, row) ==
  [q \in DOMAIN table \cup {providerId} |-> IF q = providerId THEN row ELSE table[q]]

\* what the write of a save does after its read found (existing) or did not find a row
writeFails(table, providerId, existing, ok) ==
  ~ok \/ (~existing /\ insertFails(table, providerId))

writeConsent(table, providerId, permissions, existing) ==
  IF existing THEN updateRow(table, providerId, dbPermissions(permissions))
  ELSE insertRow(table, providerId, dbPermissions(permissions))

----------------------------------------------------------------------------
(* Consent.handlePermissionToggle (the toggles of the Consent page's table)  *)

ToggleAlert == "Failed to update permission. Please try again."
UpdateAlert == "Failed to update permissions. Please try again."
UpdateError == "Failed to update permissions"
LoadError == "Failed to load providers"

\* history of the page toggles: the flag of the click being handled, the flag of the
\* last toggle that succeeded, what the list showed before that toggle, and whether
\* the toggle before it succeeded on the same flag
NoSuccession == [pending |-> Null, permission |-> Null,
                 permissions |-> NoPermissions, repeated |-> FALSE]

IdleToggle == [pc |-> "idle", providerId |-> NoProvider,
               newPermissions |-> NoPermissions, existing |-> FALSE]

\* catch: console.error + alert; finally: setLoading(false)
ToggleFailed ==
  /\ tg' = IdleToggle
  /\ alert' = ToggleAlert
  /\ pageLoading' = FALSE

\* the click: the candidate permissions are computed from the list as rendered
ToggleStart(p, k) ==
  /\ page = "consent"
  /\ ~isModalOpen                      \* the open modal's backdrop covers the table
  /\ tg.pc = "idle"
  /\ p \in DOMAIN providers
  /\ tg' = [pc |-> "getUser", providerId |-> p,
            newPermissions |-> togglePermission(providers[p].permissions, k),
            existing |-> FALSE]
  /\ pageLoading' = TRUE
  /\ alert' = Null
  /\ UNCHANGED <<consents, providerRows, refetch, clientSession, page, providers, providersList,
                 selectedProvider, isModalOpen, pageError, modal, sv, authVars>>

\* await supabase.auth.getUser(); if (!user) throw
ToggleGetUser ==
  /\ tg.pc = "getUser"
  /\ \E answered \in BOOLEAN :
       IF clientSession /\ answered
       THEN /\ tg' = [tg EXCEPT !.pc = "select"]
            /\ alert' = Null /\ UNCHANGED pageLoading
       ELSE ToggleFailed
  /\ UNCHANGED <<consents, providerRows, refetch, clientSession, page, providers, providersList,
                 selectedProvider, isModalOpen, pageError, modal, sv, authVars>>

\* await select().eq(user_id).eq(provider_id).maybeSingle(); if (queryError) throw
ToggleSelect ==
  /\ tg.pc = "select"
  /\ \E ok \in BOOLEAN :
       IF ok
       THEN /\ tg' = [tg EXCEPT !.pc = "write",
                                !.existing = hasRow(consents, tg.providerId)]
            /\ alert' = Null /\ UNCHANGED pageLoading
       ELSE ToggleFailed
  /\ UNCHANGED <<consents, providerRows, refetch, clientSession, page, providers, providersList,
                 selectedProvider, isModalOpen, pageError, modal, sv, authVars>>

\* await update / insert; then setProviders(prev => prev.map(...))
ToggleWrite ==
  /\ tg.pc = "write"
  /\ \E ok \in BOOLEAN :
       LET p == tg.providerId IN
       IF writeFails(consents, p, tg.existing, ok)
       THEN /\ ToggleFailed
            /\ UNCHANGED <<consents, providers>>
       ELSE /\ consents' = writeConsent(consents, p, tg.newPermissions, tg.existing)
            /\ providers' = [q \in DOMAIN providers |->
                               IF q = p THEN consentEntry(tg.newPermissions)
                               ELSE providers[q]]
            /\ tg' = IdleToggle
            /\ pageLoading' = FALSE
            /\ alert' = Null
  /\ UNCHANGED <<providerRows, refetch, clientSession, page, providersList,
                 selectedProvider, isModalOpen, pageError, modal, sv, authVars>>

----------------------------------------------------------------------------
(* ProviderAccessModal and the pages' onUpdatePermissions                    *)

UnmountedModal == [mounted |-> FALSE, currentPermissions |-> NoPermissions,
                   loading |-> FALSE, error |-> Null, confirmingDelete |-> FALSE]
IdleSave == [pc |-> "idle", providerId |-> NoProvider,
             permissions |-> NoPermissions, existing |-> FALSE]
EmptyList == [p \in {} |-> NoPermissions]

\* the list of the mounted page
listedIds == IF page = "consent" THEN DOMAIN providers ELSE DOMAIN providersList
listed(p) == IF page = "consent" THEN providers[p] ELSE providersList[p]

\* useState(provider.permissions): the initial value is taken when the modal mounts,
\* which is when selectedProvider first becomes non-null
mountModal(m, permissions) ==
  IF m.mounted THEN m
  ELSE [mounted |-> TRUE, currentPermissions |-> permissions,
        loading |-> FALSE, error |-> Null, confirmingDelete |-> FALSE]

\* openModal / openAccessModal ("Manage")
OpenModal(p) ==
  /\ ~isModalOpen
  /\ p \in listedIds
  /\ selectedProvider' = p
  /\ isModalOpen' = TRUE
  /\ modal' = mountModal(modal, listed(p).permissions)
  /\ alert' = Null
  /\ UNCHANGED <<consents, providerRows, refetch, succession, clientSession, page, providers, providersList,
                 pageLoading, pageError, tg, sv, authVars>>

\* the modal's handlePermissionToggle (its buttons are disabled while loading)
ModalToggle(k) ==
  /\ isModalOpen
  /\ ~modal.loading
  /\ modal' = [modal EXCEPT !.currentPermissions = togglePermission(@, k)]
  /\ alert' = Null
  /\ UNCHANGED <<consents, providerRows, refetch, succession, clientSession, page, providers, providersList,
                 selectedProvider, isModalOpen, pageLoading, pageError, tg, sv,
                 authVars>>

\* handleCancel: the Cancel button (disabled while loading) or the backdrop (never).
\* While a removal waits for its confirmation it only withdraws the confirmation.
ModalCancel ==
  /\ isModalOpen
  /\ IF modal.confirmingDelete
     THEN /\ modal' = [modal EXCEPT !.confirmingDelete = FALSE]
          /\ UNCHANGED isModalOpen
     ELSE /\ isModalOpen' = FALSE
          /\ UNCHANGED modal
  /\ alert' = Null
  /\ UNCHANGED <<consents, providerRows, refetch, succession, clientSession, page, providers, providersList,
                 selectedProvider, pageLoading, pageError, tg, sv,
                 authVars>>

\* handleSaveChanges up to its first await
ModalSaveStart ==
  /\ isModalOpen
  /\ ~modal.loading
  /\ ~modal.confirmingDelete
  /\ sv.pc = "idle"
  /\ modal' = [modal EXCEPT !.loading = TRUE, !.error = Null]
  /\ sv' = [pc |-> "m_getUser", providerId |-> selectedProvider,
            permissions |-> modal.currentPermissions, existing |-> FALSE]
  /\ alert' = Null
  /\ UNCHANGED <<consents, providerRows, refetch, succession, clientSession, page, providers, providersList,
                 selectedProvider, isModalOpen, pageLoading, pageError, tg,
                 authVars>>

\* await onUpdatePermissions(provider.id, currentPermissions): the page's handler
\* runs to its first await (setLoading(true); await getUser())
CallParent ==
  /\ sv' = [sv EXCEPT !.pc = "p_getUser", !.existing = FALSE]
  /\ pageLoading' = TRUE

\* the page's handler has returned (it catches everything): onClose(); finally
SaveReturns ==
  /\ sv' = IdleSave
  /\ pageLoading' = FALSE
  /\ isModalOpen' = FALSE
  /\ modal' = [modal EXCEPT !.loading = FALSE]

\* "First try to save with Supabase": getUser; without a user the block is skipped
ModalGetUser ==
  /\ sv.pc = "m_getUser"
  /\ \E answered \in BOOLEAN :
       IF clientSession /\ answered
       THEN /\ sv' = [sv EXCEPT !.pc = "m_select"]
            /\ UNCHANGED pageLoading
       ELSE CallParent
  /\ alert' = Null
  /\ UNCHANGED <<consents, providerRows, refetch, succession, clientSession, page, providers, providersList,
                 selectedProvider, isModalOpen, pageError, modal, tg, authVars>>

\* the modal's select; a queryError is thrown, caught (console.error) and the
\* handler goes on to the page's handler
ModalSelect ==
  /\ sv.pc = "m_select"
  /\ \E ok \in BOOLEAN :
       IF ok
       THEN /\ sv' = [sv EXCEPT !.pc = "m_write",
                                !.existing = hasRow(consents, sv.providerId)]
            /\ UNCHANGED pageLoading
       ELSE CallParent
  /\ alert' = Null
  /\ UNCHANGED <<consents, providerRows, refetch, succession, clientSession, page, providers, providersList,
                 selectedProvider, isModalOpen, pageError, modal, tg, authVars>>

\* the modal's update / insert; success and failure both go on to the page's handler
ModalWrite ==
  /\ sv.pc = "m_write"
  /\ \E ok \in BOOLEAN :
       /\ consents' = IF writeFails(consents, sv.providerId, sv.existing, ok)
                      THEN consents
                      ELSE writeConsent(consents, sv.providerId, sv.permissions, sv.existing)
       /\ CallParent
  /\ alert' = Null
  /\ UNCHANGED <<providerRows, refetch, succession, clientSession, page, providers, providersList,
                 selectedProvider, isModalOpen, pageError, modal, tg, authVars>>

\* the page's catch: Consent alerts, Providers sets its error; the handler returns
ParentFailed ==
  /\ IF page = "consent"
     THEN alert' = UpdateAlert /\ UNCHANGED pageError
     ELSE pageError' = UpdateError /\ alert' = Null
  /\ SaveReturns

\* handleUpdatePermissions: getUser.  Consent throws without a user, Providers
\* skips its if (user) block and returns without an error
ParentGetUser ==
  /\ sv.pc = "p_getUser"
  /\ \E answered \in BOOLEAN :
       IF clientSession /\ answered
       THEN /\ sv' = [sv EXCEPT !.pc = "p_select"]
            /\ alert' = Null /\ UNCHANGED <<pageLoading, isModalOpen, modal, pageError>>
       ELSE IF page = "consent"
            THEN ParentFailed
            ELSE SaveReturns /\ alert' = Null /\ UNCHANGED pageError
  /\ UNCHANGED <<consents, providerRows, refetch, succession, clientSession, page, providers, providersList,
                 selectedProvider, tg, authVars>>

ParentSelect ==
  /\ sv.pc = "p_select"
  /\ \E ok \in BOOLEAN :
       IF ok
       THEN /\ sv' = [sv EXCEPT !.pc = "p_write",
                                !.existing = hasRow(consents, sv.providerId)]
            /\ alert' = Null /\ UNCHANGED <<pageLoading, isModalOpen, modal, pageError>>
       ELSE ParentFailed
  /\ UNCHANGED <<consents, providerRows, refetch, succession, clientSession, page, providers, providersList,
                 selectedProvider, tg, authVars>>

\* the page's update / insert.  Consent then maps the new permissions into its list
\* and closes the modal; Providers goes on to fetchProviders (setError(null))
ParentWrite ==
  /\ sv.pc = "p_write"
  /\ \E ok \in BOOLEAN :
       IF writeFails(consents, sv.providerId, sv.existing, ok)
       THEN /\ ParentFailed
            /\ UNCHANGED <<consents, providers>>
       ELSE /\ consents' = writeConsent(consents, sv.providerId, sv.permissions, sv.existing)
            /\ IF page = "consent"
               THEN /\ providers' = [q \in DOMAIN providers |->
                                       IF q = sv.providerId
                                       THEN consentEntry(sv.permissions)
                                       ELSE providers[q]]
                    /\ SaveReturns
                    /\ UNCHANGED pageError
               ELSE /\ sv' = [sv EXCEPT !.pc = "p_fetch"]
                    /\ pageError' = Null
                    /\ UNCHANGED <<providers, pageLoading, isModalOpen, modal>>
            /\ alert' = Null
  /\ UNCHANGED <<providerRows, refetch, succession, clientSession, page, providersList, selectedProvider, tg,
                 authVars>>

\* Providers.fetchProviders after a save: the list is read again from the backend,
\* and is emptied when the read fails
fetchedList(table) ==
  [p \in providerRows |-> [permissions |-> listedPermissions(table, p)]]

ParentFetch ==
  /\ sv.pc = "p_fetch"
  /\ \E ok \in BOOLEAN :
       IF clientSession /\ ok
       THEN providersList' = fetchedList(consents) /\ UNCHANGED pageError
       ELSE providersList' = EmptyList /\ pageError' = LoadError
  /\ SaveReturns
  /\ alert' = Null
  /\ UNCHANGED <<consents, providerRows, refetch, succession, clientSession, page, providers, selectedProvider,
                 tg, authVars>>

----------------------------------------------------------------------------
(* Removing a provider: ProviderAccessModal.handleDelete and the pages'      *)
(* onDeleteProvider                                                          *)

DeleteAlert == "Failed to disconnect provider. Please try again."
DeleteError == "Failed to delete provider"

\* what a .delete() on user_provider_consents can answer: the row of the signed-in
\* user is removed ("Users can delete their own consents"), or the request fails
DeleteOutcomes == {"deleted", "error"}

\* .delete().eq('user_id', user.id).eq('provider_id', providerId)
deleteRow(table, providerId) ==
  [q \in DOMAIN table \ {providerId} |-> table[q]]

afterDelete(table, providerId, outcome) ==
  IF outcome = "deleted" THEN deleteRow(table, providerId) ELSE table

\* the sample list Consent.fetchProviders falls back to when the service throws
SampleProviders ==
  [q \in {"1", "2", "3"} |->
     consentEntry([k \in PermKeys |-> q \in {"1", "3"}])]

\* handleDelete, first press: "If not yet confirming, show confirmation first"
ModalDeletePress ==
  /\ isModalOpen
  /\ ~modal.loading
  /\ ~modal.confirmingDelete
  /\ modal' = [modal EXCEPT !.confirmingDelete = TRUE]
  /\ alert' = Null
  /\ UNCHANGED <<consents, providerRows, refetch, succession, clientSession, page, providers,
                 providersList, selectedProvider, isModalOpen, pageLoading, pageError,
                 tg, sv, authVars>>

\* handleDelete without its confirmation step: the first press starts the removal
ModalDeleteStartUnconfirmed ==
  /\ isModalOpen
  /\ ~modal.loading
  /\ sv.pc = "idle"
  /\ modal' = [modal EXCEPT !.loading = TRUE, !.error = Null]
  /\ sv' = [pc |-> "d_getUser", providerId |-> selectedProvider,
            permissions |-> NoPermissions, existing |-> FALSE]
  /\ alert' = Null
  /\ UNCHANGED <<consents, providerRows, refetch, succession, clientSession, page, providers,
                 providersList, selectedProvider, isModalOpen, pageLoading, pageError,
                 tg, authVars>>

\* handleDelete, second press ("Confirm Removal"), up to its first await
ModalDeleteStart ==
  /\ isModalOpen
  /\ ~modal.loading
  /\ modal.confirmingDelete
  /\ sv.pc = "idle"
  /\ modal' = [modal EXCEPT !.loading = TRUE, !.error = Null]
  /\ sv' = [pc |-> "d_getUser", providerId |-> selectedProvider,
            permissions |-> NoPermissions, existing |-> FALSE]
  /\ alert' = Null
  /\ UNCHANGED <<consents, providerRows, refetch, succession, clientSession, page, providers,
                 providersList, selectedProvider, isModalOpen, pageLoading, pageError,
                 tg, authVars>>

\* await onDeleteProvider(provider.id): the page's handler runs to its first await
CallParentDelete ==
  /\ sv' = [sv EXCEPT !.pc = "pd_getUser"]
  /\ pageLoading' = TRUE

\* the page's handler has returned (it catches everything): onClose(); finally
\* setLoading(false), setConfirmingDelete(false)
DeleteReturns ==
  /\ sv' = IdleSave
  /\ pageLoading' = FALSE
  /\ isModalOpen' = FALSE
  /\ modal' = [modal EXCEPT !.loading = FALSE, !.confirmingDelete = FALSE]

\* "First try to delete with Supabase": getUser; without a user the block is skipped
ModalDeleteGetUser ==
  /\ sv.pc = "d_getUser"
  /\ \E answered \in BOOLEAN :
       IF clientSession /\ answered
       THEN /\ sv' = [sv EXCEPT !.pc = "d_delete"]
            /\ UNCHANGED pageLoading
       ELSE CallParentDelete
  /\ alert' = Null
  /\ UNCHANGED <<consents, providerRows, refetch, succession, clientSession, page, providers,
                 providersList, selectedProvider, isModalOpen, pageError, modal, tg,
                 authVars>>

\* the modal's delete; a deleteError is thrown, caught (console.error) and the
\* handler goes on to the page's handler, as it does after a delete without error
ModalDeleteRow ==
  /\ sv.pc = "d_delete"
  /\ \E outcome \in DeleteOutcomes :
       consents' = afterDelete(consents, sv.providerId, outcome)
  /\ CallParentDelete
  /\ alert' = Null
  /\ UNCHANGED <<providerRows, refetch, succession, clientSession, page, providers,
                 providersList, selectedProvider, isModalOpen, pageError, modal, tg,
                 authVars>>

\* handleDeleteProvider: getUser.  Consent throws without a user (catch: alert),
\* Providers skips its if (user) block and returns without an error
ParentDeleteGetUser ==
  /\ sv.pc = "pd_getUser"
  /\ \E answered \in BOOLEAN :
       IF clientSession /\ answered
       THEN /\ sv' = [sv EXCEPT !.pc = "pd_delete"]
            /\ alert' = Null
            /\ UNCHANGED <<pageLoading, isModalOpen, modal>>
       ELSE /\ DeleteReturns
            /\ alert' = IF page = "consent" THEN DeleteAlert ELSE Null
  /\ UNCHANGED <<consents, providerRows, refetch, succession, clientSession, page, providers,
                 providersList, selectedProvider, pageError, tg, authVars>>

\* the page's delete of the consent record.  Consent throws on a deleteError; without
\* one it shows the provider as Disconnected, closes the modal and calls
\* fetchProviders() without awaiting it.  Providers logs a consentError and goes on
\* ("Continue even if consent deletion fails") to the owner check.
ParentDeleteRow ==
  /\ sv.pc = "pd_delete"
  /\ \E outcome \in DeleteOutcomes :
       /\ consents' = afterDelete(consents, sv.providerId, outcome)
       /\ IF page = "consent"
          THEN /\ DeleteReturns
               /\ IF outcome = "error"
                  THEN alert' = DeleteAlert /\ UNCHANGED <<providers, refetch>>
                  ELSE /\ providers' = [q \in DOMAIN providers |->
                                          IF q = sv.providerId
                                          THEN consentEntry(NoPermissions)
                                          ELSE providers[q]]
                       /\ refetch' = TRUE
                       /\ alert' = Null
          ELSE /\ sv' = [sv EXCEPT !.pc = "pd_owner"]
               /\ alert' = Null
               /\ UNCHANGED <<providers, refetch, pageLoading, isModalOpen, modal>>
  /\ UNCHANGED <<providerRows, succession, clientSession, page, providersList,
                 selectedProvider, pageError, tg, authVars>>

\* everything but the backend's tables and the handler's own state
deleteRest == <<refetch, succession, clientSession, page, providers, providersList,
                selectedProvider, tg, storage, location, lgUser, lgLoading, lgError,
                lgInit, lgOps, sbUser, sbSession, sbLoading, sbError, sbInit, sbSubscribed,
                sbOps, hl, settlement, submitError, submitSuccess, response, handled,
                plannerVars, resendVars>>

\* what a .delete() on providers or provider_data_types can answer.  The migrations
\* enable row level security on both tables and define no DELETE policy for either:
\* under them alone the request removes no row and reports no error ("filtered").
\* "deleted" is the answer of a backend whose policies let the request through.
GuardedDeleteOutcomes == {"deleted", "filtered", "error"}

\* Providers without its owner check: every user goes on to delete the provider
ParentDeleteOwnerUnchecked ==
  /\ sv.pc = "pd_owner"
  /\ \E answered \in BOOLEAN :
       IF answered /\ sv.providerId \in providerRows
       THEN sv' = [sv EXCEPT !.pc = "pd_types"] /\ UNCHANGED pageError
       ELSE sv' = [sv EXCEPT !.pc = "pd_fetch"] /\ pageError' = Null
  /\ alert' = Null
  /\ UNCHANGED <<consents, providerRows, isModalOpen, pageLoading, modal, backendVars,
                 deleteRest>>

\* Providers: select('user_id').single() on the provider; only when a row is
\* answered and its user_id is the signed-in user's does the handler go on to delete
ParentDeleteOwner ==
  /\ sv.pc = "pd_owner"
  /\ \E answered \in BOOLEAN :
       IF answered /\ sv.providerId \in providerRows /\ providerOwner[sv.providerId] = "me"
       THEN sv' = [sv EXCEPT !.pc = "pd_types"] /\ UNCHANGED pageError
       ELSE sv' = [sv EXCEPT !.pc = "pd_fetch"] /\ pageError' = Null
  /\ alert' = Null
  /\ UNCHANGED <<consents, providerRows, isModalOpen, pageLoading, modal, backendVars,
                 deleteRest>>

\* Providers: delete of the provider's provider_data_types rows; a dataTypeError is
\* only logged
ParentDeleteTypes ==
  /\ sv.pc = "pd_types"
  /\ \E outcome \in GuardedDeleteOutcomes :
       providerDataTypes' = IF outcome = "deleted"
                            THEN providerDataTypes \ {sv.providerId}
                            ELSE providerDataTypes
  /\ sv' = [sv EXCEPT !.pc = "pd_provider"]
  /\ alert' = Null
  /\ UNCHANGED <<consents, providerRows, isModalOpen, pageLoading, pageError, modal,
                 otherConsents, providerOwner, deleteRest>>

\* Providers: delete of the provider row; the rows that reference it go with it
\* (provider_id ... ON DELETE CASCADE): its data types and every user's consent
\* record.  A providerError is thrown: catch sets the page's error and the handler
\* returns.
ParentDeleteProvider ==
  /\ sv.pc = "pd_provider"
  /\ \E outcome \in GuardedDeleteOutcomes :
       IF outcome = "error"
       THEN /\ pageError' = DeleteError
            /\ DeleteReturns
            /\ UNCHANGED <<consents, providerRows, otherConsents, providerDataTypes>>
       ELSE /\ IF outcome = "deleted"
               THEN /\ providerRows' = providerRows \ {sv.providerId}
                    /\ consents' = deleteRow(consents, sv.providerId)
                    /\ otherConsents' = otherConsents \ {sv.providerId}
                    /\ providerDataTypes' = providerDataTypes \ {sv.providerId}
               ELSE UNCHANGED <<consents, providerRows, otherConsents, providerDataTypes>>
            /\ sv' = [sv EXCEPT !.pc = "pd_fetch"]
            /\ pageError' = Null
            /\ UNCHANGED <<pageLoading, isModalOpen, modal>>
  /\ alert' = Null
  /\ UNCHANGED <<providerOwner, deleteRest>>

\* Providers: await fetchProviders(); setIsAccessModalOpen(false); return
ParentDeleteFetch ==
  /\ sv.pc = "pd_fetch"
  /\ \E ok \in BOOLEAN :
       IF clientSession /\ ok
       THEN providersList' = fetchedList(consents) /\ UNCHANGED pageError
       ELSE providersList' = EmptyList /\ pageError' = LoadError
  /\ DeleteReturns
  /\ alert' = Null
  /\ UNCHANGED <<consents, providerRows, refetch, succession, clientSession, page, providers,
                 selectedProvider, tg, authVars>>

\* Consent: the fetchProviders() call started by handleDeleteProvider settles.  A
\* list with entries replaces the page's list, an empty one leaves it, and a
\* failure of the service replaces it with the sample list.
Refetch ==
  /\ refetch
  /\ refetch' = FALSE
  /\ \E ok \in BOOLEAN :
       IF clientSession /\ ok
       THEN providers' = IF providerRows # {}
                         THEN [p \in providerRows |->
                                 consentEntry(listedPermissions(consents, p))]
                         ELSE providers
       ELSE providers' = SampleProviders
  /\ pageLoading' = FALSE
  /\ alert' = Null
  /\ UNCHANGED <<consents, providerRows, succession, clientSession, page, providersList,
                 selectedProvider, isModalOpen, pageError, modal, tg, sv, authVars>>

----------------------------------------------------------------------------
(* Browser storage, the router and its guards                                *)

\* no login call settled in the step
NoSettlement == [call |-> Null, how |-> Null]

Absent == "absent"
StorageKeys == {"token", "user", "supabase_auth_token"}
EmptyStorage == [k \in StorageKeys |-> Absent]

setItem(store, key, value) == [store EXCEPT ![key] = value]
removeItem(store, key) == [store EXCEPT ![key] = Absent]

LoginPath == "/login"
ProtectedPaths == {"/", "/consent"}
Paths == {LoginPath} \cup ProtectedPaths

\* variant of ProtectedRoute that lets a legacy user in as well
ProtectedRouteEitherUser(legacyUser, legacyLoading, supabaseUser, supabaseLoading) ==
  IF legacyLoading \/ supabaseLoading THEN "waiting"
  ELSE IF supabaseUser = Null /\ legacyUser = Null THEN "redirect"
  ELSE "outlet"

\* ProtectedRoute: what it renders for the two facades' user and loading
ProtectedRoute(legacyUser, legacyLoading, supabaseUser, supabaseLoading) ==
  IF legacyLoading \/ supabaseLoading THEN "waiting"
  ELSE IF supabaseUser = Null THEN "redirect"
  ELSE "outlet"

\* PublicRoute
PublicRoute(legacyUser, legacyLoading, supabaseUser, supabaseLoading) ==
  IF legacyLoading \/ supabaseLoading THEN "waiting"
  ELSE IF supabaseUser # Null THEN "redirect"
  ELSE "outlet"

protectedNow == ProtectedRoute(lgUser, lgLoading, sbUser, sbLoading)
publicNow == PublicRoute(lgUser, lgLoading, sbUser, sbLoading)

\* <Navigate to="/login" replace /> rendered by ProtectedRoute
GuardRedirect ==
  /\ location \in ProtectedPaths
  /\ protectedNow = "redirect"
  /\ location' = LoginPath
  /\ settlement' = NoSettlement
  /\ submitError' = Null
  /\ submitSuccess' = Null
  /\ UNCHANGED <<consentVars, apiVars, clientSession, storage, lgUser, lgLoading,
                 lgError, lgInit, lgOps, sbUser, sbSession, sbLoading, sbError, sbInit,
                 sbSubscribed, sbOps, hl>>

\* <Navigate to="/" replace /> rendered by PublicRoute
PublicRedirect ==
  /\ location = LoginPath
  /\ publicNow = "redirect"
  /\ location' = "/"
  /\ settlement' = NoSettlement
  /\ submitError' = Null
  /\ submitSuccess' = Null
  /\ UNCHANGED <<consentVars, apiVars, clientSession, storage, lgUser, lgLoading,
                 lgError, lgInit, lgOps, sbUser, sbSession, sbLoading, sbError, sbInit,
                 sbSubscribed, sbOps, hl>>

\* Login's effect: "If authenticated with either system, redirect to dashboard"
LoginRedirect ==
  /\ location = LoginPath
  /\ publicNow = "outlet"
  /\ sbSession # Null \/ lgUser # Null
  /\ location' = "/"
  /\ settlement' = NoSettlement
  /\ submitError' = Null
  /\ submitSuccess' = Null
  /\ UNCHANGED <<consentVars, apiVars, clientSession, storage, lgUser, lgLoading,
                 lgError, lgInit, lgOps, sbUser, sbSession, sbLoading, sbError, sbInit,
                 sbSubscribed, sbOps, hl>>

\* the user follows a link or enters a path
UserNavigate(path) ==
  /\ path \in Paths
  /\ path # location
  /\ location' = path
  /\ settlement' = NoSettlement
  /\ submitError' = Null
  /\ submitSuccess' = Null
  /\ UNCHANGED <<consentVars, apiVars, clientSession, storage, lgUser, lgLoading,
                 lgError, lgInit, lgOps, sbUser, sbSession, sbLoading, sbError, sbInit,
                 sbSubscribed, sbOps, hl>>

----------------------------------------------------------------------------
(* Legacy facade: AuthProvider                                               *)

TIMEOUT_DURATION == 15000
TickMs == 7500

LegacyOps == {"login", "register", "updateProfile"}
IdleOp == [req |-> "none", timer |-> "none", elapsed |-> 0]
StartedOp == [req |-> "inflight", timer |-> "armed", elapsed |-> 0]

LoginUser == "ann"
UpdatedUser == "ann (updated)"
LoginToken == "token-1"

RequiredMsg == "Email and password are required"
LoginTimeoutMsg == "Login request timed out. Please try again."
RegisterTimeoutMsg == "Registration request timed out. Please try again."
RequestTimeoutMsg == "Request timed out. Please try again."
InvalidEmailMsg == "Please enter a valid email address"
ShortPasswordMsg == "Password must be at least 8 characters long"
NameRequiredMsg == "Name is required"
RegisteredMsg == "Registration successful! Please check your email to verify your account."
ProfileFailedMsg == "Failed to update profile. Please try again."
\* what api.post throws: the message of the ApiError built by handleResponse
ApiErrorMessages == {"Invalid credentials", "An error occurred"}

\* the inputs the operations are called with
Emails == {"", "ann", "ann@example.com"}
Passwords == {" ", "short", "Passw0rd!"}
Names == {" ", "Ann"}

\* !s.trim()
trimsToEmpty(s) == s \in {"", " "}
\* credentials.email.match(/^[^\s@]+@[^\s@]+\.[^\s@]+$/)
emailMatches(s) == s = "ann@example.com"
\* credentials.password.length
passwordLength(s) == CASE s = " " -> 1 [] s = "short" -> 5 [] s = "Passw0rd!" -> 9

\* variant of timeoutMessage with one message for every operation
timeoutMessageGeneric(op) == RequestTimeoutMsg

\* the message each operation's timer sets
timeoutMessage(op) ==
  CASE op = "login" -> LoginTimeoutMsg
    [] op = "register" -> RegisterTimeoutMsg
    [] OTHER -> RequestTimeoutMsg

\* the awaited request has settled: clearTimeout(timeoutId) drops a timer that is
\* still armed and does nothing to one that has fired
settled(o) ==
  [req |-> "none", timer |-> IF o.timer = "fired" THEN "fired" ELSE "none", elapsed |-> 0]

\* the REST requests in flight (logout's GET is sent and never read)
endpoint(op) == IF op = "updateProfile" THEN "profile" ELSE op
apiRequests == {endpoint(op) : op \in {o \in LegacyOps : lgOps[o].req = "inflight"}}

\* variant of checkAuthStatus whose else branch only resets the user
LgCheckAuthStatusKeepsStorage ==
  /\ lgInit = "pending"
  /\ lgInit' = "done"
  /\ lgUser' = IF storage["token"] # Absent /\ storage["user"] # Absent
               THEN storage["user"]
               ELSE Null
  /\ lgLoading' = FALSE
  /\ settlement' = NoSettlement
  /\ submitError' = Null
  /\ submitSuccess' = Null
  /\ UNCHANGED <<consentVars, apiVars, clientSession, storage, location, lgError, lgOps,
                 sbUser, sbSession, sbLoading, sbError, sbInit, sbSubscribed, sbOps, hl>>

\* the mount effect checkAuthStatus
LgCheckAuthStatus ==
  /\ lgInit = "pending"
  /\ lgInit' = "done"
  /\ IF storage["token"] # Absent /\ storage["user"] # Absent
     THEN lgUser' = storage["user"] /\ UNCHANGED storage
     ELSE /\ lgUser' = Null
          /\ storage' = removeItem(removeItem(storage, "token"), "user")
  /\ lgLoading' = FALSE
  /\ settlement' = NoSettlement
  /\ submitError' = Null
  /\ submitSuccess' = Null
  /\ UNCHANGED <<consentVars, apiVars, clientSession, location, lgError, lgOps,
                 sbUser, sbSession, sbLoading, sbError, sbInit, sbSubscribed, sbOps, hl>>

\* variant of LgTimeout in which the timer aborts the request it guards
LgTimeoutAborts(op) ==
  /\ lgOps[op].timer = "armed"
  /\ lgOps[op].elapsed >= TIMEOUT_DURATION
  /\ lgOps' = [lgOps EXCEPT ![op].timer = "fired", ![op].req = "none"]
  /\ lgLoading' = FALSE
  /\ lgError' = timeoutMessage(op)
  /\ settlement' = NoSettlement
  /\ submitError' = Null
  /\ submitSuccess' = Null
  /\ UNCHANGED <<consentVars, apiVars, clientSession, storage, location, lgUser, lgInit,
                 sbUser, sbSession, sbLoading, sbError, sbInit, sbSubscribed, sbOps, hl>>

\* setTimeout(() => { setLoading(false); setError(...) }, TIMEOUT_DURATION) fires;
\* nothing cancels the request
LgTimeout(op) ==
  /\ lgOps[op].timer = "armed"
  /\ lgOps[op].elapsed >= TIMEOUT_DURATION
  /\ lgOps' = [lgOps EXCEPT ![op].timer = "fired"]
  /\ lgLoading' = FALSE
  /\ lgError' = timeoutMessage(op)
  /\ settlement' = NoSettlement
  /\ submitError' = Null
  /\ submitSuccess' = Null
  /\ UNCHANGED <<consentVars, apiVars, clientSession, storage, location, lgUser, lgInit,
                 sbUser, sbSession, sbLoading, sbError, sbInit, sbSubscribed, sbOps, hl>>

\* time passes for the requests in flight; a timer that is due fires first
Tick ==
  /\ \E op \in LegacyOps : lgOps[op].req = "inflight" /\ lgOps[op].elapsed < TIMEOUT_DURATION
  /\ \A op \in LegacyOps :
       ~(lgOps[op].timer = "armed" /\ lgOps[op].elapsed >= TIMEOUT_DURATION)
  /\ lgOps' = [op \in LegacyOps |->
                 IF lgOps[op].req = "inflight" /\ lgOps[op].elapsed < TIMEOUT_DURATION
                 THEN [lgOps[op] EXCEPT !.elapsed = @ + TickMs]
                 ELSE lgOps[op]]
  /\ settlement' = NoSettlement
  /\ submitError' = Null
  /\ submitSuccess' = Null
  /\ UNCHANGED <<consentVars, apiVars, clientSession, storage, location, lgUser,
                 lgLoading, lgError, lgInit,
                 sbUser, sbSession, sbLoading, sbError, sbInit, sbSubscribed, sbOps, hl>>

\* login(credentials) up to its await
LgLogin(email, password) ==
  /\ lgOps["login"].req = "none"
  /\ IF trimsToEmpty(email) \/ trimsToEmpty(password)
     THEN /\ lgError' = RequiredMsg
          /\ lgLoading' = FALSE
          /\ UNCHANGED lgOps
     ELSE /\ lgError' = Null
          /\ lgLoading' = TRUE
          /\ lgOps' = [lgOps EXCEPT !["login"] = StartedOp]
  /\ settlement' = (IF trimsToEmpty(email) \/ trimsToEmpty(password)
                    THEN [call |-> "login", how |-> "returned"] ELSE NoSettlement)
  /\ submitError' = Null
  /\ submitSuccess' = Null
  /\ UNCHANGED <<consentVars, apiVars, clientSession, storage, location, lgUser, lgInit,
                 sbUser, sbSession, sbLoading, sbError, sbInit, sbSubscribed, sbOps, hl>>

\* the login response arrives: the try block's continuation
LgLoginResolved ==
  /\ lgOps["login"].req = "inflight"
  /\ lgOps' = [lgOps EXCEPT !["login"] = settled(@)]
  /\ storage' = setItem(setItem(storage, "token", LoginToken), "user", LoginUser)
  /\ lgUser' = LoginUser
  /\ lgError' = ""
  /\ location' = "/"
  /\ lgLoading' = FALSE
  /\ settlement' = [call |-> "login", how |-> "returned"]
  /\ submitError' = Null
  /\ submitSuccess' = Null
  /\ UNCHANGED <<consentVars, apiVars, clientSession, lgInit,
                 sbUser, sbSession, sbLoading, sbError, sbInit, sbSubscribed, sbOps, hl>>

\* variant of LgLoginRejected that forwards the error to the platform facade
LgLoginRejectedForwards(message) ==
  /\ lgOps["login"].req = "inflight"
  /\ message \in ApiErrorMessages
  /\ lgOps' = [lgOps EXCEPT !["login"] = settled(@)]
  /\ lgError' = message
  /\ sbError' = message
  /\ lgLoading' = FALSE
  /\ settlement' = [call |-> "login", how |-> "thrown"]
  /\ submitError' = Null
  /\ submitSuccess' = Null
  /\ UNCHANGED <<consentVars, apiVars, clientSession, storage, location, lgUser, lgInit,
                 sbUser, sbSession, sbLoading, sbInit, sbSubscribed, sbOps, hl>>

\* the login request fails: the catch block (which rethrows) and finally
LgLoginRejected(message) ==
  /\ lgOps["login"].req = "inflight"
  /\ message \in ApiErrorMessages
  /\ lgOps' = [lgOps EXCEPT !["login"] = settled(@)]
  /\ lgError' = message
  /\ lgLoading' = FALSE
  /\ settlement' = [call |-> "login", how |-> "thrown"]
  /\ submitError' = Null
  /\ submitSuccess' = Null
  /\ UNCHANGED <<consentVars, apiVars, clientSession, storage, location, lgUser, lgInit,
                 sbUser, sbSession, sbLoading, sbError, sbInit, sbSubscribed, sbOps, hl>>

\* register(credentials) up to its await: three validations, then the request
registerValidation(email, password, name) ==
  IF ~emailMatches(email) THEN InvalidEmailMsg
  ELSE IF passwordLength(password) < 8 THEN ShortPasswordMsg
  ELSE IF trimsToEmpty(name) THEN NameRequiredMsg
  ELSE Null

\* variant of LgRegister whose validation returns without setLoading(false)
LgRegisterKeepsLoading(email, password, name) ==
  /\ lgOps["register"].req = "none"
  /\ IF registerValidation(email, password, name) # Null
     THEN /\ lgError' = registerValidation(email, password, name)
          /\ lgLoading' = TRUE
          /\ UNCHANGED lgOps
     ELSE /\ lgError' = Null
          /\ lgLoading' = TRUE
          /\ lgOps' = [lgOps EXCEPT !["register"] = StartedOp]
  /\ settlement' = NoSettlement
  /\ submitError' = Null
  /\ submitSuccess' = Null
  /\ UNCHANGED <<consentVars, apiVars, clientSession, storage, location, lgUser, lgInit,
                 sbUser, sbSession, sbLoading, sbError, sbInit, sbSubscribed, sbOps, hl>>

LgRegister(email, password, name) ==
  /\ lgOps["register"].req = "none"
  /\ IF registerValidation(email, password, name) # Null
     THEN /\ lgError' = registerValidation(email, password, name)
          /\ lgLoading' = FALSE
          /\ UNCHANGED lgOps
     ELSE /\ lgError' = Null
          /\ lgLoading' = TRUE
          /\ lgOps' = [lgOps EXCEPT !["register"] = StartedOp]
  /\ settlement' = NoSettlement
  /\ submitError' = Null
  /\ submitSuccess' = Null
  /\ UNCHANGED <<consentVars, apiVars, clientSession, storage, location, lgUser, lgInit,
                 sbUser, sbSession, sbLoading, sbError, sbInit, sbSubscribed, sbOps, hl>>

LgRegisterSettled(message) ==
  /\ lgOps["register"].req = "inflight"
  /\ message \in ApiErrorMessages \cup {RegisteredMsg}
  /\ lgOps' = [lgOps EXCEPT !["register"] = settled(@)]
  /\ lgError' = message
  /\ lgLoading' = FALSE
  /\ settlement' = NoSettlement
  /\ submitError' = Null
  /\ submitSuccess' = Null
  /\ UNCHANGED <<consentVars, apiVars, clientSession, storage, location, lgUser, lgInit,
                 sbUser, sbSession, sbLoading, sbError, sbInit, sbSubscribed, sbOps, hl>>

\* updateProfile(credentials)
LgUpdateProfile ==
  /\ lgOps["updateProfile"].req = "none"
  /\ lgError' = Null
  /\ lgLoading' = TRUE
  /\ lgOps' = [lgOps EXCEPT !["updateProfile"] = StartedOp]
  /\ settlement' = NoSettlement
  /\ submitError' = Null
  /\ submitSuccess' = Null
  /\ UNCHANGED <<consentVars, apiVars, clientSession, storage, location, lgUser, lgInit,
                 sbUser, sbSession, sbLoading, sbError, sbInit, sbSubscribed, sbOps, hl>>

LgUpdateProfileSettled(ok) ==
  /\ lgOps["updateProfile"].req = "inflight"
  /\ lgOps' = [lgOps EXCEPT !["updateProfile"] = settled(@)]
  /\ IF ok
     THEN /\ lgUser' = UpdatedUser
          /\ storage' = setItem(storage, "user", UpdatedUser)
          /\ UNCHANGED lgError
     ELSE /\ lgError' = ProfileFailedMsg
          /\ UNCHANGED <<lgUser, storage>>
  /\ lgLoading' = FALSE
  /\ settlement' = NoSettlement
  /\ submitError' = Null
  /\ submitSuccess' = Null
  /\ UNCHANGED <<consentVars, apiVars, clientSession, location, lgInit,
                 sbUser, sbSession, sbLoading, sbError, sbInit, sbSubscribed, sbOps, hl>>

\* logout(): synchronous; api.get('logout') is sent, not awaited and never read
legacyLogout ==
  /\ storage' = removeItem(removeItem(storage, "token"), "user")
  /\ lgUser' = Null
  /\ lgError' = Null
  /\ lgLoading' = FALSE
  /\ location' = LoginPath

\* logout() called on the facade
LgLogout ==
  /\ legacyLogout
  /\ settlement' = NoSettlement
  /\ submitError' = Null
  /\ submitSuccess' = Null
  /\ UNCHANGED <<consentVars, apiVars, clientSession, lgInit, lgOps,
                 sbUser, sbSession, sbLoading, sbError, sbInit, sbSubscribed, sbOps, hl>>

----------------------------------------------------------------------------
(* Platform facade: SupabaseAuthProvider                                     *)

PlatformOps == {"signIn", "signUp"}
PlatformSession == "session"
PlatformUser == "ann@platform"
AccessToken == "access-token"
ThrownError == "Failed to fetch"

\* session?.user || null
userOf(session) == IF session = Null THEN Null ELSE PlatformUser

\* the client's session as getSession() and the subscription deliver it
currentSession(signedIn) == IF signedIn THEN PlatformSession ELSE Null

\* variant of the callback that stores the session and leaves the user as it is
notifySessionOnly(session) ==
  IF sbSubscribed
  THEN sbSession' = session /\ UNCHANGED sbUser
  ELSE UNCHANGED <<sbSession, sbUser>>

\* the onAuthStateChange callback, when one is registered
notify(session) ==
  IF sbSubscribed
  THEN sbSession' = session /\ sbUser' = userOf(session)
  ELSE UNCHANGED <<sbSession, sbUser>>

\* initializeAuth after getSession() has settled.  A returned error is shown; a
\* rejection leaves the function at its await: nothing after it runs
SbInitialize(outcome) ==
  /\ sbInit = "getSession"
  /\ outcome \in {"session", "error", "rejected"}
  /\ IF outcome = "rejected"
     THEN /\ sbInit' = "rejected"
          /\ UNCHANGED <<sbSession, sbUser, sbError, sbSubscribed, sbLoading>>
     ELSE /\ sbInit' = "done"
          /\ IF outcome = "error"
             THEN sbError' = ThrownError /\ UNCHANGED <<sbSession, sbUser>>
             ELSE /\ sbSession' = currentSession(clientSession)
                  /\ sbUser' = userOf(currentSession(clientSession))
                  /\ UNCHANGED sbError
          /\ sbSubscribed' = TRUE
          /\ sbLoading' = FALSE
  /\ settlement' = NoSettlement
  /\ submitError' = Null
  /\ submitSuccess' = Null
  /\ UNCHANGED <<consentVars, apiVars, clientSession, storage, location,
                 lgUser, lgLoading, lgError, lgInit, lgOps, sbOps, hl>>

\* signIn / signUp up to the await; the Login screen is the only caller
SbStart(op) ==
  /\ op \in PlatformOps
  /\ location = LoginPath
  /\ publicNow = "outlet"
  /\ sbOps[op] = "idle"
  /\ sbOps' = [sbOps EXCEPT ![op] = "inflight"]
  /\ sbLoading' = TRUE
  /\ sbError' = Null
  /\ settlement' = NoSettlement
  /\ UNCHANGED <<consentVars, apiVars, clientSession, storage, location,
                 lgUser, lgLoading, lgError, lgInit, lgOps,
                 sbUser, sbSession, sbInit, sbSubscribed, hl>>

\* signInWithPassword has settled.  With a session the client has signed in and
\* told its subscribers before the call returns
SbSignInSettled(outcome) ==
  /\ sbOps["signIn"] = "inflight"
  /\ outcome \in {"session", "error", "thrown"}
  /\ sbOps' = [sbOps EXCEPT !["signIn"] = "idle"]
  /\ IF outcome = "session"
     THEN /\ clientSession' = TRUE
          /\ notify(PlatformSession)
          /\ storage' = setItem(storage, "supabase_auth_token", AccessToken)
          /\ location' = "/"
          /\ UNCHANGED sbError
     ELSE /\ sbError' = IF outcome = "error" THEN "Invalid login credentials"
                        ELSE ThrownError
          /\ UNCHANGED <<clientSession, sbSession, sbUser, storage, location>>
  /\ sbLoading' = FALSE
  /\ settlement' = [call |-> "signIn", how |-> "returned"]
  /\ submitError' = Null
  /\ submitSuccess' = Null
  /\ UNCHANGED <<consentVars, apiVars, lgUser, lgLoading, lgError, lgInit, lgOps,
                 sbInit, sbSubscribed, hl>>

\* auth.signUp has settled: signUp acts on an error only and returns; handleSubmit,
\* which awaited it, goes on with setSuccess(...) and the clearing of its fields (on
\* the Login instance that submitted)
SbSignUpSettled(outcome) ==
  /\ sbOps["signUp"] = "inflight"
  /\ outcome \in {"user", "error", "thrown"}
  /\ sbOps' = [sbOps EXCEPT !["signUp"] = "idle"]
  /\ sbError' = CASE outcome = "user" -> sbError
                  [] outcome = "error" -> "User already registered"
                  [] outcome = "thrown" -> ThrownError
  /\ sbLoading' = FALSE
  /\ settlement' = NoSettlement
  /\ submitError' = Null
  /\ submitSuccess' = RegisteredMsg
  /\ UNCHANGED <<consentVars, apiVars, clientSession, storage, location,
                 lgUser, lgLoading, lgError, lgInit, lgOps,
                 sbUser, sbSession, sbInit, sbSubscribed, hl>>

\* the platform session ends by itself (expiry, sign-out elsewhere): SIGNED_OUT
SessionExpires ==
  /\ clientSession
  /\ clientSession' = FALSE
  /\ notify(Null)
  /\ settlement' = NoSettlement
  /\ submitError' = Null
  /\ submitSuccess' = Null
  /\ UNCHANGED <<consentVars, apiVars, storage, location,
                 lgUser, lgLoading, lgError, lgInit, lgOps,
                 sbLoading, sbError, sbInit, sbSubscribed, sbOps, hl>>

----------------------------------------------------------------------------
(* Login.handleSubmit                                                        *)

\* the form as submitted: mode, email, password, name, confirmPassword, and what
\* validateEmail(email) and isStrongPassword(passwordRequirements) answer for it.
\* The login mode shows neither the name nor the confirmation field.
Forms ==
  {f \in [mode : {"login", "register"}, email : Emails, password : {"", "Passw0rd!"},
          name : {"", "Ann"}, confirmPassword : {"short", "Passw0rd!"},
          emailValid : BOOLEAN, strong : BOOLEAN] :
     /\ f.email = "" => ~f.emailValid
     /\ f.password = "" => ~f.strong
     /\ f.mode = "login" => (f.name = "" /\ f.confirmPassword = "short" /\ ~f.strong)}

\* validateForm: the message it sets, Null when the form passes.  validateEmail and
\* isStrongPassword are imported from utils/validation: their answers are inputs.
validateForm(mode, email, password, name, confirmPassword, emailValid, strong) ==
  IF email = "" \/ password = "" THEN "All fields are required"
  ELSE IF ~emailValid THEN InvalidEmailMsg
  ELSE IF mode = "register" /\ ~strong THEN "Please meet all password requirements"
  ELSE IF mode = "register" /\ name = "" THEN NameRequiredMsg
  ELSE IF mode = "register" /\ password # confirmPassword THEN "Passwords do not match"
  ELSE Null

\* handleSubmit up to its first await: setError(''), validateForm(), then signUp or
\* signIn of the platform facade
HandleSubmit(mode, email, password, name, confirmPassword, emailValid, strong) ==
  /\ location = LoginPath
  /\ publicNow = "outlet"
  /\ LET message == validateForm(mode, email, password, name, confirmPassword,
                                 emailValid, strong)
     IN IF message # Null
        THEN /\ submitError' = message
             /\ submitSuccess' = ""
             /\ settlement' = NoSettlement
             /\ UNCHANGED <<consentVars, apiVars, clientSession, storage, location,
                            lgUser, lgLoading, lgError, lgInit, lgOps,
                            sbUser, sbSession, sbLoading, sbError, sbInit,
                            sbSubscribed, sbOps, hl>>
        ELSE /\ submitError' = ""
             /\ submitSuccess' = ""
             /\ SbStart(IF mode = "register" THEN "signUp" ELSE "signIn")

----------------------------------------------------------------------------
(* services/auth.ts: handleResponse                                          *)

\* a response body: text that is not JSON, a JSON object without a message, or a
\* JSON object with one
Bodies == {"not JSON", "JSON without message",
           "Invalid credentials", "Token expired", "Email already registered"}
Statuses == {200, 201, 204, 400, 401, 403, 404, 409, 422, 500, 502, 503}

NoResponse == [status |-> 0, body |-> Null]
NotHandled == [kind |-> Null, status |-> 0, message |-> Null]

\* response.ok
responseOk(status) == status >= 200 /\ status <= 299

\* handleResponse(response): the value returned, the ApiError thrown for a response
\* that is not ok, or the SyntaxError of response.json() on an ok response.
\* new ApiError(status, undefined) has the empty message.
handleResponse(r) ==
  IF ~responseOk(r.status)
  THEN [kind |-> "ApiError", status |-> r.status,
        message |-> IF r.body = "not JSON"
                    THEN (IF r.status = 401 THEN "Invalid credentials"
                          ELSE "An error occurred")
                    ELSE IF r.body = "JSON without message" THEN "" ELSE r.body]
  ELSE IF r.body = "not JSON"
       THEN [kind |-> "SyntaxError", status |-> 0, message |-> Null]
       ELSE [kind |-> "returned", status |-> 0, message |-> Null]

\* api.get / post / put / delete: fetch has answered and handleResponse is applied
HandleResponse ==
  /\ handled = NotHandled
  /\ handled' = handleResponse(response)
  /\ UNCHANGED <<consentVars, clientSession, storage, location, lgUser, lgLoading,
                 lgError, lgInit, lgOps, sbUser, sbSession, sbLoading, sbError, sbInit,
                 sbSubscribed, sbOps, hl, settlement, submitError, submitSuccess,
                 response, plannerVars, backendVars, resendVars>>

----------------------------------------------------------------------------
(* CarePlanner: the reminder toggles                                         *)

Toggles == {"email", "sms", "app"}
MaxCalls == 2     \* toggleReminder calls in flight at the same time
ReminderAlert == "Failed to update notification settings. Please try again."

\* defaultReminderSettings: every reminder enabled
PlannerInit ==
  /\ reminderToggles = [t \in Toggles |-> TRUE]
  /\ tr = [c \in 1..MaxCalls |-> [pc |-> "idle", id |-> Null, newValue |-> FALSE]]

plannerRest == <<providerRows, consents, clientSession, page, providers, providersList,
                 selectedProvider, isModalOpen, pageLoading, pageError, modal, tg, sv,
                 refetch, succession, storage, location, lgUser, lgLoading, lgError,
                 lgInit, lgOps, sbUser, sbSession, sbLoading, sbError, sbInit,
                 sbSubscribed, sbOps, hl, settlement, submitError, submitSuccess,
                 backendVars, resendVars>>

\* toggleReminder up to its first await: newValue from the rendered toggles, the
\* functional update of the toggle, then the platform update is sent
ToggleReminder(c, id) ==
  /\ tr[c].pc = "idle"
  /\ id \in Toggles
  /\ LET newValue == ~reminderToggles[id]
     IN /\ reminderToggles' = [reminderToggles EXCEPT ![id] = newValue]
        /\ tr' = [tr EXCEPT ![c] = [pc |-> "platform", id |-> id, newValue |-> newValue]]
  /\ alert' = Null
  /\ UNCHANGED <<plannerRest, response, handled>>

\* supabaseData.updateUserSettings has settled: return when it succeeded, otherwise
\* post the one changed setting to the REST API
TrPlatformSettled(c, succeeded) ==
  /\ tr[c].pc = "platform"
  /\ tr' = [tr EXCEPT ![c] = IF succeeded THEN [@ EXCEPT !.pc = "idle"]
                                           ELSE [@ EXCEPT !.pc = "legacy"]]
  /\ alert' = Null
  /\ UNCHANGED <<plannerRest, response, handled, reminderToggles>>

\* api.post('user-notification-settings') has settled: the catch block negates
\* whatever the toggle holds by then, and alerts
TrLegacySettled(c, succeeded) ==
  /\ tr[c].pc = "legacy"
  /\ tr' = [tr EXCEPT ![c].pc = "idle"]
  /\ IF succeeded
       THEN /\ alert' = Null
            /\ UNCHANGED reminderToggles
       ELSE /\ reminderToggles' =
                 [reminderToggles EXCEPT ![tr[c].id] = ~reminderToggles[tr[c].id]]
            /\ alert' = ReminderAlert
  /\ UNCHANGED <<plannerRest, response, handled>>

----------------------------------------------------------------------------
(* authService.resendVerification                                            *)

ResendEmails == {"ann@example.com", "bob@example.com"}
cooldownPeriod == 60000
ResendTickMs == 30000   \* the clock's step
MaxClock == 120000      \* the clock stops here
MaxResends == 2         \* resendVerification calls in flight at the same time

ResendInit ==
  /\ clock = 0
  /\ stamps = [e \in {} |-> 0]
  /\ rs = [c \in 1..MaxResends |-> [pc |-> "idle", email |-> Null, at |-> 0]]
  /\ delivered = [e \in {} |-> 0]

resendRest == <<consentVars, clientSession, storage, location, lgUser, lgLoading,
                lgError, lgInit, lgOps, sbUser, sbSession, sbLoading, sbError, sbInit,
                sbSubscribed, sbOps, hl, response, handled, plannerVars, backendVars>>

\* resendVerification up to its await: getItem, parseInt, the cooldown check, then
\* the request is sent.  (The stored value is Date.now().toString(); parseInt gives
\* the number back.)
ResendVerification(c, email) ==
  /\ rs[c].pc = "idle"
  /\ email \in ResendEmails
  /\ IF email \in DOMAIN stamps /\ clock - stamps[email] < cooldownPeriod
     THEN /\ settlement' = [call |-> "resendVerification", how |-> "thrown"]
          /\ UNCHANGED rs
     ELSE /\ rs' = [rs EXCEPT ![c] = [pc |-> "inflight", email |-> email, at |-> clock]]
          /\ settlement' = NoSettlement
  /\ submitError' = Null
  /\ submitSuccess' = Null
  /\ UNCHANGED <<resendRest, clock, stamps, delivered>>

\* api.post('send-Verify-email') has settled: after a success the time of the
\* settlement is stored; a failure is thrown on to the caller
ResendSettled(c, succeeded) ==
  /\ rs[c].pc = "inflight"
  /\ rs' = [rs EXCEPT ![c] = [pc |-> "idle", email |-> Null, at |-> 0]]
  /\ IF succeeded
     THEN /\ stamps' = [e \in DOMAIN stamps \cup {rs[c].email} |->
                          IF e = rs[c].email THEN clock ELSE stamps[e]]
          /\ delivered' = [e \in DOMAIN delivered \cup {rs[c].email} |->
                             IF e = rs[c].email THEN rs[c].at ELSE delivered[e]]
          /\ settlement' = [call |-> "resendVerification", how |-> "returned"]
     ELSE /\ settlement' = [call |-> "resendVerification", how |-> "thrown"]
          /\ UNCHANGED <<stamps, delivered>>
  /\ submitError' = Null
  /\ submitSuccess' = Null
  /\ UNCHANGED <<resendRest, clock>>

\* time passes
ResendTick ==
  /\ clock < MaxClock
  /\ clock' = clock + ResendTickMs
  /\ settlement' = NoSettlement
  /\ submitError' = Null
  /\ submitSuccess' = Null
  /\ UNCHANGED <<resendRest, stamps, rs, delivered>>

----------------------------------------------------------------------------
(* Sidebar.handleLogout: legacyAuth.logout(), then supabaseAuth.signOut()     *)

\* the sidebar is part of the protected layout
HlLegacyLogout ==
  /\ hl = "idle"
  /\ location \in ProtectedPaths
  /\ protectedNow = "outlet"
  /\ legacyLogout
  /\ hl' = "legacyDone"
  /\ settlement' = NoSettlement
  /\ submitError' = Null
  /\ submitSuccess' = Null
  /\ UNCHANGED <<consentVars, apiVars, clientSession, lgInit, lgOps,
                 sbUser, sbSession, sbLoading, sbError, sbInit, sbSubscribed, sbOps>>

\* signOut() up to its await
HlSignOutStart ==
  /\ hl = "legacyDone"
  /\ hl' = "signOut"
  /\ sbLoading' = TRUE
  /\ settlement' = NoSettlement
  /\ submitError' = Null
  /\ submitSuccess' = Null
  /\ UNCHANGED <<consentVars, apiVars, clientSession, storage, location,
                 lgUser, lgLoading, lgError, lgInit, lgOps,
                 sbUser, sbSession, sbError, sbInit, sbSubscribed, sbOps>>

\* what signOut() does once auth.signOut() has settled, whose result it does not
\* read.  "signedOut": the client dropped its session and told its subscribers;
\* "error": the call returned an error and kept the session; "thrown": it rejected.
\* Then handleLogout's navigate('/login')
signOutSettled(outcome) ==
  /\ IF outcome = "signedOut"
     THEN clientSession' = FALSE /\ notify(Null)
     ELSE UNCHANGED <<clientSession, sbSession, sbUser>>
  /\ IF outcome = "thrown"
     THEN sbError' = ThrownError /\ UNCHANGED storage
     ELSE /\ storage' = removeItem(removeItem(storage, "token"), "user")
          /\ UNCHANGED sbError
  /\ sbLoading' = FALSE
  /\ location' = LoginPath

HlSignOutSettled(outcome) ==
  /\ hl = "signOut"
  /\ outcome \in {"signedOut", "error", "thrown"}
  /\ signOutSettled(outcome)
  /\ hl' = "idle"
  /\ settlement' = NoSettlement
  /\ submitError' = Null
  /\ submitSuccess' = Null
  /\ UNCHANGED <<consentVars, apiVars, lgUser, lgLoading, lgError, lgInit, lgOps,
                 sbInit, sbSubscribed, sbOps>>

----------------------------------------------------------------------------
(* Specifications                                                            *)

\* the application as loaded: storage as an earlier visit left it
InitialStorages ==
  {EmptyStorage,
   setItem(EmptyStorage, "token", LoginToken),
   setItem(EmptyStorage, "user", LoginUser),
   setItem(setItem(EmptyStorage, "token", LoginToken), "user", LoginUser)}

\* the rest of the backend: every provider has its data types and a consent record
\* of another user, and is owned by the given user
BackendInit(owner) ==
  /\ otherConsents = ProviderIds
  /\ providerOwner = [p \in ProviderIds |-> owner]
  /\ providerDataTypes = ProviderIds

ConsentPageInit ==
  /\ providerRows = ProviderIds
  /\ consents = NoTable
  /\ providers = [p \in providerRows |-> consentEntry(NoPermissions)]
  /\ providersList = fetchedList(consents)
  /\ selectedProvider = NoProvider
  /\ isModalOpen = FALSE
  /\ pageLoading = FALSE
  /\ pageError = Null
  /\ alert = Null
  /\ modal = UnmountedModal
  /\ tg = IdleToggle
  /\ sv = IdleSave
  /\ refetch = FALSE
  /\ succession = NoSuccession

\* AuthProvider and SupabaseAuthProvider as constructed, before their mount effects
AuthInit ==
  /\ page = "consent"
  /\ ConsentPageInit
  /\ clientSession \in BOOLEAN
  /\ storage \in InitialStorages
  /\ location \in {LoginPath, "/"}
  /\ lgUser = (IF storage["user"] = Absent THEN Null ELSE storage["user"])
  /\ lgLoading = TRUE
  /\ lgError = Null
  /\ lgInit = "pending"
  /\ lgOps = [op \in LegacyOps |-> IdleOp]
  /\ sbUser = Null
  /\ sbSession = Null
  /\ sbLoading = TRUE
  /\ sbError = Null
  /\ sbInit = "getSession"
  /\ sbSubscribed = FALSE
  /\ sbOps = [op \in PlatformOps |-> "idle"]
  /\ hl = "idle"
  /\ settlement = NoSettlement
  /\ submitError = Null
  /\ submitSuccess = Null
  /\ response = NoResponse
  /\ handled = NotHandled
  /\ PlannerInit
  /\ ResendInit
  /\ BackendInit("other")

\* both facades, the guards and the sidebar's logout
AuthNext ==
  \/ LgCheckAuthStatus
  \/ LgTimeout("login")
  \/ Tick
  \/ \E e \in Emails, pw \in Passwords : LgLogin(e, pw)
  \/ LgLoginResolved
  \/ \E m \in ApiErrorMessages : LgLoginRejected(m)
  \/ \E o \in {"session", "error", "rejected"} : SbInitialize(o)
  \/ \E f \in Forms :
       HandleSubmit(f.mode, f.email, f.password, f.name, f.confirmPassword,
                    f.emailValid, f.strong)
  \/ \E o \in {"session", "error", "thrown"} : SbSignInSettled(o)
  \/ \E o \in {"user", "error", "thrown"} : SbSignUpSettled(o)
  \/ SessionExpires
  \/ HlLegacyLogout
  \/ HlSignOutStart
  \/ \E o \in {"signedOut", "error", "thrown"} : HlSignOutSettled(o)
  \/ GuardRedirect
  \/ PublicRedirect
  \/ LoginRedirect
  \/ \E path \in Paths : UserNavigate(path)

SpecAuth == AuthInit /\ [][AuthNext]_vars

\* the legacy facade by itself, every operation with a timeout, on the login screen
\* of a visitor without a platform session
LegacyInit ==
  /\ page = "consent"
  /\ ConsentPageInit
  /\ clientSession = FALSE
  /\ storage \in InitialStorages
  /\ location = LoginPath
  /\ lgUser = (IF storage["user"] = Absent THEN Null ELSE storage["user"])
  /\ lgLoading = TRUE
  /\ lgError = Null
  /\ lgInit = "pending"
  /\ lgOps = [op \in LegacyOps |-> IdleOp]
  /\ sbUser = Null
  /\ sbSession = Null
  /\ sbLoading = FALSE
  /\ sbError = Null
  /\ sbInit = "done"
  /\ sbSubscribed = TRUE
  /\ sbOps = [op \in PlatformOps |-> "idle"]
  /\ hl = "idle"
  /\ settlement = NoSettlement
  /\ submitError = Null
  /\ submitSuccess = Null
  /\ response = NoResponse
  /\ handled = NotHandled
  /\ PlannerInit
  /\ ResendInit
  /\ BackendInit("other")

LegacyNext ==
  \/ LgCheckAuthStatus
  \/ \E op \in LegacyOps : LgTimeout(op)
  \/ Tick
  \/ \E e \in Emails, pw \in Passwords : LgLogin(e, pw)
  \/ LgLoginResolved
  \/ \E m \in ApiErrorMessages : LgLoginRejected(m)
  \/ \E e \in Emails, pw \in Passwords, n \in Names : LgRegister(e, pw, n)
  \/ \E m \in ApiErrorMessages \cup {RegisteredMsg} : LgRegisterSettled(m)
  \/ LgUpdateProfile
  \/ \E ok \in BOOLEAN : LgUpdateProfileSettled(ok)
  \/ LgLogout

SpecLegacy == LegacyInit /\ [][LegacyNext]_vars

\* handleResponse applied to any response of the REST API
ResponseInit ==
  /\ response \in [status : Statuses, body : Bodies]
  /\ handled = NotHandled
  /\ PlannerInit
  /\ ResendInit
  /\ BackendInit("other")
  /\ page = "consent"
  /\ ConsentPageInit
  /\ clientSession = FALSE
  /\ storage = EmptyStorage
  /\ location = LoginPath
  /\ lgUser = Null
  /\ lgLoading = FALSE
  /\ lgError = Null
  /\ lgInit = "done"
  /\ lgOps = [op \in LegacyOps |-> IdleOp]
  /\ sbUser = Null
  /\ sbSession = Null
  /\ sbLoading = FALSE
  /\ sbError = Null
  /\ sbInit = "done"
  /\ sbSubscribed = TRUE
  /\ sbOps = [op \in PlatformOps |-> "idle"]
  /\ hl = "idle"
  /\ settlement = NoSettlement
  /\ submitError = Null
  /\ submitSuccess = Null

SpecResponse == ResponseInit /\ [][HandleResponse]_vars

\* the login screen: register and login of the legacy facade, and the form's submit
\* to the platform facade; no clock
SubmitNext ==
  \/ \E e \in Emails, pw \in Passwords : LgLogin(e, pw)
  \/ LgLoginResolved
  \/ \E m \in ApiErrorMessages : LgLoginRejected(m)
  \/ \E e \in Emails, pw \in Passwords, n \in Names : LgRegister(e, pw, n)
  \/ \E m \in ApiErrorMessages \cup {RegisteredMsg} : LgRegisterSettled(m)
  \/ \E f \in Forms :
       HandleSubmit(f.mode, f.email, f.password, f.name, f.confirmPassword,
                    f.emailValid, f.strong)
  \/ \E o \in {"session", "error", "thrown"} : SbSignInSettled(o)
  \/ \E o \in {"user", "error", "thrown"} : SbSignUpSettled(o)

SpecSubmit == LegacyInit /\ [][SubmitNext]_vars

\* calls of authService.resendVerification, and the clock
ResendNext ==
  \/ \E c \in 1..MaxResends, e \in ResendEmails : ResendVerification(c, e)
  \/ \E c \in 1..MaxResends, ok \in BOOLEAN : ResendSettled(c, ok)
  \/ ResendTick

SpecResend == LegacyInit /\ [][ResendNext]_vars


\* a page behind the route guard, mounted by a signed-in user, its list fetched
ConsentInit ==
  /\ page \in {"consent", "providers"}
  /\ ConsentPageInit
  /\ clientSession = TRUE
  /\ storage = setItem(EmptyStorage, "supabase_auth_token", AccessToken)
  /\ location = (IF page = "consent" THEN "/consent" ELSE "/")
  /\ lgUser = Null
  /\ lgLoading = FALSE
  /\ lgError = Null
  /\ lgInit = "done"
  /\ lgOps = [op \in LegacyOps |-> IdleOp]
  /\ sbUser = PlatformUser
  /\ sbSession = PlatformSession
  /\ sbLoading = FALSE
  /\ sbError = Null
  /\ sbInit = "done"
  /\ sbSubscribed = TRUE
  /\ sbOps = [op \in PlatformOps |-> "idle"]
  /\ hl = "idle"
  /\ settlement = NoSettlement
  /\ submitError = Null
  /\ submitSuccess = Null
  /\ response = NoResponse
  /\ handled = NotHandled
  /\ PlannerInit
  /\ ResendInit
  /\ \E owner \in {"me", "other"} :
       BackendInit(IF page = "providers" THEN owner ELSE "other")

ConsentNext ==
  \/ (\E p \in ProviderIds, k \in PermKeys : ToggleStart(p, k)) /\ UNCHANGED succession
  \/ ToggleGetUser /\ UNCHANGED succession
  \/ ToggleSelect /\ UNCHANGED succession
  \/ ToggleWrite /\ UNCHANGED succession
  \/ \E p \in ProviderIds : OpenModal(p)
  \/ \E k \in PermKeys : ModalToggle(k)
  \/ ModalCancel
  \/ ModalSaveStart
  \/ ModalGetUser
  \/ ModalSelect
  \/ ModalWrite
  \/ ParentGetUser
  \/ ParentSelect
  \/ ParentWrite
  \/ ParentFetch

SpecConsent == ConsentInit /\ [][ConsentNext]_vars

\* the CarePlanner page with its reminder toggles
PlannerNext ==
  \/ \E c \in 1..MaxCalls, id \in Toggles : ToggleReminder(c, id)
  \/ \E c \in 1..MaxCalls, ok \in BOOLEAN : TrPlatformSettled(c, ok)
  \/ \E c \in 1..MaxCalls, ok \in BOOLEAN : TrLegacySettled(c, ok)

SpecPlanner == ConsentInit /\ [][PlannerNext]_vars


\* the pages with every save and the removal of a provider
RemoveNext ==
  \/ ConsentNext
  \/ ModalDeletePress
  \/ ModalDeleteStart
  \/ ModalDeleteGetUser
  \/ ModalDeleteRow
  \/ ParentDeleteGetUser
  \/ ParentDeleteRow
  \/ ParentDeleteOwner
  \/ ParentDeleteTypes
  \/ ParentDeleteProvider
  \/ ParentDeleteFetch
  \/ Refetch

SpecRemove == ConsentInit /\ [][RemoveNext]_vars

\* the Consent page by itself, toggled flag by flag, with the history of the toggles
\* that succeeded
ToggleInit ==
  /\ ConsentInit
  /\ page = "consent"

TgClick(p, k) ==
  /\ ToggleStart(p, k)
  /\ succession' = [succession EXCEPT !.pending = k]

TgRequest ==
  /\ ToggleGetUser \/ ToggleSelect
  /\ UNCHANGED succession

TgWrite ==
  /\ ToggleWrite
  /\ succession' =
       IF alert' = Null
       THEN [pending |-> Null, permission |-> succession.pending,
             permissions |-> providers[tg.providerId].permissions,
             repeated |-> succession.permission = succession.pending]
       ELSE [succession EXCEPT !.pending = Null]

ToggleNext ==
  \/ \E p \in ProviderIds, k \in PermKeys : TgClick(p, k)
  \/ TgRequest
  \/ TgWrite

SpecToggle == ToggleInit /\ [][ToggleNext]_vars

\* the same, with every step the application takes by itself taken eventually: the
\* mount effects, the timers, the redirects, and every request settling one way or
\* another.  What a user does (logging in, navigating, logging out) is not forced
FairSpecAuth ==
  /\ AuthInit /\ [][AuthNext]_vars
  /\ WF_vars(LgCheckAuthStatus)
  /\ WF_vars(Tick)
  /\ WF_vars(LgTimeout("login"))
  /\ WF_vars(LgLoginResolved \/ \E m \in ApiErrorMessages : LgLoginRejected(m))
  /\ WF_vars(\E o \in {"session", "error", "rejected"} : SbInitialize(o))
  /\ WF_vars(\E o \in {"session", "error", "thrown"} : SbSignInSettled(o))
  /\ WF_vars(\E o \in {"user", "error", "thrown"} : SbSignUpSettled(o))
  /\ WF_vars(HlSignOutStart)
  /\ WF_vars(\E o \in {"signedOut", "error", "thrown"} : HlSignOutSettled(o))
  /\ WF_vars(GuardRedirect)
  /\ WF_vars(PublicRedirect)
  /\ WF_vars(LoginRedirect)

----------------------------------------------------------------------------
(* Properties                                                                *)

\* C1: every stored consent record has approved equal to lab_results OR medications
\* OR fitness_data, whichever of the four saving operations wrote it and after any
\* sequence of writes
C1_ApprovedIsOrOfFlags ==
  \A p \in DOMAIN consents :
    consents[p].approved =
      (consents[p].lab_results \/ consents[p].medications \/ consents[p].fitness_data)

\* a record has been written with fitness_data as its only flag, and is approved
C1_Witness ==
  /\ hasRow(consents, "p1")
  /\ consents["p1"].fitness_data
  /\ ~consents["p1"].lab_results
  /\ ~consents["p1"].medications
  /\ consents["p1"].approved

\* C2: when the write of a page's handleUpdatePermissions ends the save, the list
\* shows the requested permissions, the write having succeeded or, after its
\* failure, the legacy data path having stored them
C2_SaveShowsRequested ==
  [][(sv.pc = "p_write" /\ sv'.pc = "idle")
       => IF page = "consent"
          THEN providers'[sv.providerId].permissions = sv.permissions
          ELSE /\ sv.providerId \in DOMAIN providersList'
               /\ providersList'[sv.providerId].permissions = sv.permissions]_vars

\* C3: an error of the platform path of a permission save is not shown to the user:
\* no step of a save, all of whose requests are those of the platform path, raises
\* an alert or sets the page's or the modal's error
C3_PlatformErrorsSwallowed ==
  [][(tg.pc # "idle" \/ sv.pc # "idle")
       => /\ alert' = Null
          /\ pageError' \in {pageError, Null}
          /\ modal'.error = Null]_vars

\* C4: when the write of Consent.handlePermissionToggle ends the toggle, the list
\* shows the requested permissions for the provider
C4_ToggleShowsRequested ==
  [][(tg.pc = "write" /\ tg'.pc = "idle")
       => providers'[tg.providerId].permissions = tg.newPermissions]_vars

\* C5: when Sidebar.handleLogout completes, storage holds neither 'token' nor
\* 'user', the platform session is null and ProtectedRoute does not render the
\* protected screens
C5_LogoutClearsBoth ==
  [][(hl = "signOut" /\ hl' = "idle")
       => /\ storage'["token"] = Absent
          /\ storage'["user"] = Absent
          /\ sbSession' = Null
          /\ protectedNow' # "outlet"]_vars

\* C6: with neither facade loading ProtectedRoute renders the protected screens
\* exactly when a platform user is present and redirects otherwise, whatever the
\* legacy user; while either facade is loading it waits
C6_GuardFollowsPlatformUser ==
  /\ (lgLoading \/ sbLoading) => protectedNow = "waiting"
  /\ (~lgLoading /\ ~sbLoading) =>
       /\ protectedNow = "outlet" <=> sbUser # Null
       /\ protectedNow = "redirect" <=> sbUser = Null

\* a legacy user without a platform user stands on a protected path and is redirected
C6_Witness ==
  /\ ~lgLoading /\ ~sbLoading
  /\ lgUser # Null /\ sbUser = Null
  /\ location \in ProtectedPaths
  /\ protectedNow = "redirect"

\* C7: the login timer fires only once TIMEOUT_DURATION ms have passed without the
\* response, and its firing sets the timeout error and loading to false without
\* reading or changing the request
C7_LoginTimeoutSurfaces ==
  [][(lgOps["login"].timer = "armed" /\ lgOps'["login"].timer = "fired")
       => /\ lgOps["login"].req = "inflight"
          /\ lgOps["login"].elapsed >= TIMEOUT_DURATION
          /\ lgError' = LoginTimeoutMsg
          /\ ~lgLoading'
          /\ lgOps'["login"].req = lgOps["login"].req]_vars

\* the login timer has fired on a request that has not been answered
C7_Witness ==
  /\ lgOps["login"].timer = "fired"
  /\ lgOps["login"].req = "inflight"
  /\ lgOps["login"].elapsed >= TIMEOUT_DURATION
  /\ lgError = LoginTimeoutMsg
  /\ ~lgLoading

\* C8: the firing of an operation's timer leaves its request in flight, and a login
\* response handled after the timer has fired overwrites the timeout error; a
\* successful one also stores 'token' and 'user', sets the user and navigates to '/'
C8_TimeoutDoesNotCancel ==
  [][/\ \A op \in LegacyOps :
          (lgOps[op].timer = "armed" /\ lgOps'[op].timer = "fired")
            => lgOps'[op].req = "inflight"
     /\ (/\ lgOps["login"].timer = "fired"
         /\ lgOps["login"].req = "inflight"
         /\ lgOps'["login"].req = "none")
          => \/ lgError' \in ApiErrorMessages
             \/ /\ lgError' = ""
                /\ storage'["token"] = LoginToken
                /\ storage'["user"] = LoginUser
                /\ lgUser' = LoginUser
                /\ location' = "/"]_vars

\* a login answered after its timer fired has signed the user in and cleared the error
C8_Witness ==
  /\ lgOps["login"].timer = "fired"
  /\ lgOps["login"].req = "none"
  /\ lgError = ""
  /\ lgUser = LoginUser
  /\ storage["token"] = LoginToken
  /\ storage["user"] = LoginUser
  /\ location = "/"

\* C9: whenever a facade's loading flag is true it eventually becomes false again
C9_LoadingEventuallyClears ==
  /\ lgLoading ~> ~lgLoading
  /\ sbLoading ~> ~sbLoading

C13_ReadThenWriteKeepsOneRecord ==
  [][/\ (consents' # consents) =>
          \/ /\ tg.pc = "write" /\ tg'.pc = "idle"
             /\ tg.existing = hasRow(consents, tg.providerId)
             /\ DOMAIN consents' = DOMAIN consents \cup {tg.providerId}
             /\ consents'[tg.providerId] = dbPermissions(tg.newPermissions)
          \/ /\ sv.pc \in {"m_write", "p_write"} /\ sv'.pc # sv.pc
             /\ sv.existing = hasRow(consents, sv.providerId)
             /\ DOMAIN consents' = DOMAIN consents \cup {sv.providerId}
             /\ consents'[sv.providerId] = dbPermissions(sv.permissions)
     /\ (tg.pc = "write" /\ tg'.pc = "idle"
           /\ ~tg.existing /\ hasRow(consents, tg.providerId))
          => consents' = consents /\ alert' = ToggleAlert
     /\ (sv.pc \in {"m_write", "p_write"} /\ sv'.pc # sv.pc
           /\ ~sv.existing /\ hasRow(consents, sv.providerId))
          => consents' = consents]_vars

\* a page toggle and a modal save for the same provider have both read that there is
\* no record; the modal's save has inserted one and the toggle is about to insert
C13_Witness ==
  /\ tg.pc = "write" /\ ~tg.existing /\ tg.providerId = "p1"
  /\ hasRow(consents, "p1")
  /\ consents["p1"] # dbPermissions(tg.newPermissions)

\* C14 (first half): a step that takes a consent record out of the table is a step
\* of the remove-provider action (the modal's delete, the page's delete, or the
\* delete of the provider row the record hangs on); no page toggle and no save,
\* the one that sets all three flags to false included, removes a record.
C14_OnlyRemovalDeletes ==
  [][\A p \in ProviderIds :
       (hasRow(consents, p) /\ ~hasRow(consents', p))
         => (sv.pc \in {"d_delete", "pd_delete", "pd_provider"} /\ sv.providerId = p)]_vars

\* C14 (second half): when the remove-provider action completes (the page's handler
\* returns to the modal, which closes) and the step shows no error (no alert, no
\* page error, no modal error), no consent record exists for that provider.
C14_RemovalLeavesNoRecord ==
  [][(/\ sv.pc \in {"pd_getUser", "pd_delete", "pd_provider", "pd_fetch"}
      /\ sv'.pc = "idle"
      /\ alert' = Null
      /\ pageError' = Null
      /\ modal'.error = Null)
       => ~hasRow(consents', sv.providerId)]_vars

\* a removal that completed on a record that existed when it was confirmed
C14_Witness ==
  /\ sv.pc = "pd_delete"
  /\ hasRow(consents, sv.providerId)
  /\ modal.confirmingDelete

\* C15: with a legacy login and a platform login both under way, whichever settles
\* first, the guard's decision (what it renders once no facade is loading) is to let
\* the user in exactly when the session the platform facade last received from the
\* client is present; the step in which the legacy login settles changes neither
\* that session nor the decision.
C15_GuardFollowsSubscription ==
  [][/\ (protectedNow' # "waiting")
          => ((protectedNow' = "outlet") <=> (sbSession' # Null))
     /\ (lgOps["login"].req = "inflight" /\ lgOps'["login"].req = "none")
          => /\ sbSession' = sbSession
             /\ ProtectedRoute(lgUser', FALSE, sbUser', FALSE)
                  = ProtectedRoute(lgUser, FALSE, sbUser, FALSE)]_vars

\* the legacy login has succeeded and the platform login, started beside it, has
\* failed: the guard redirects the legacy user
C15_Witness ==
  /\ lgUser # Null
  /\ lgOps["login"].req = "none"
  /\ sbOps["signIn"] = "idle"
  /\ sbError = "Invalid login credentials"
  /\ sbSession = Null
  /\ location \in ProtectedPaths
  /\ protectedNow = "redirect"

\* C16: whenever the backend rejects the credentials of a login call (the legacy
\* request fails with the API's error, the platform's signInWithPassword answers
\* with its error), the call does not return normally: it throws to its caller.
C16_RejectedLoginThrows ==
  [][/\ (lgOps["login"].req = "inflight" /\ lgOps'["login"].req = "none"
           /\ lgError' \in ApiErrorMessages)
          => settlement' = [call |-> "login", how |-> "thrown"]
     /\ (sbOps["signIn"] = "inflight" /\ sbOps'["signIn"] = "idle"
           /\ sbError' = "Invalid login credentials")
          => settlement' = [call |-> "signIn", how |-> "thrown"]]_vars

\* the platform's signIn has returned normally with the backend's rejection as its error
C16_Witness ==
  /\ settlement = [call |-> "signIn", how |-> "returned"]
  /\ sbError = "Invalid login credentials"
  /\ sbSession = Null

\* C17: whenever the client-side validation of an operation fails (legacy login with
\* empty credentials; legacy register with a malformed email, a password shorter
\* than 8 or a missing name; the login form with an empty field, an invalid email, a
\* weak password, a missing name or an unequal confirmation), the step issues no
\* network request, sets an error message, and leaves the loading flags false.
C17_ValidationFailsLocally ==
  [][/\ \A e \in Emails, pw \in Passwords :
          ((trimsToEmpty(e) \/ trimsToEmpty(pw)) /\ LgLogin(e, pw))
            => /\ apiRequests' = apiRequests
               /\ lgError' = RequiredMsg
               /\ ~lgLoading'
     /\ \A e \in Emails, pw \in Passwords, n \in Names :
          (registerValidation(e, pw, n) # Null /\ LgRegister(e, pw, n))
            => /\ apiRequests' = apiRequests
               /\ lgError' = registerValidation(e, pw, n)
               /\ ~lgLoading'
     /\ \A f \in Forms :
          (/\ validateForm(f.mode, f.email, f.password, f.name, f.confirmPassword,
                           f.emailValid, f.strong) # Null
           /\ HandleSubmit(f.mode, f.email, f.password, f.name, f.confirmPassword,
                           f.emailValid, f.strong))
            => /\ sbOps' = sbOps
               /\ apiRequests' = apiRequests
               /\ submitError' \notin {Null, ""}
               /\ ~sbLoading' /\ ~lgLoading']_vars

\* a register call has just failed its validation while a login request is in flight
C17_Witness ==
  /\ lgError \in {InvalidEmailMsg, ShortPasswordMsg, NameRequiredMsg}
  /\ lgOps["register"].req = "none"
  /\ lgOps["login"].req = "inflight"
  /\ ~lgLoading

\* C18: every response that is not 2xx makes handleResponse throw an ApiError that
\* carries the response's HTTP status and a message, and for a 401 response the
\* message is 'Invalid credentials'.
C18_ErrorResponsesAreTyped ==
  (handled # NotHandled /\ ~responseOk(response.status))
    => /\ handled.kind = "ApiError"
       /\ handled.status = response.status
       /\ response.status = 401 => handled.message = "Invalid credentials"

\* a 401 response whose body is not JSON has been handled
C18_Witness ==
  /\ response = [status |-> 401, body |-> "not JSON"]
  /\ handled = [kind |-> "ApiError", status |-> 401, message |-> "Invalid credentials"]

\* C19: the only browser storage keys any step writes are the legacy token and the
\* legacy user snapshot ('token', 'user'); no step of either facade writes the
\* platform session, or anything else, to browser storage.
C19_OnlyLegacyKeysWritten ==
  [][\A k \in StorageKeys \ {"token", "user"} : storage'[k] = storage[k]]_vars

\* the platform facade's signIn has stored the session's access token
C19_Witness ==
  /\ storage["supabase_auth_token"] = AccessToken
  /\ sbSession = PlatformSession
  /\ sbOps["signIn"] = "idle"

\* C21: whenever neither facade is loading, navigation settles after finitely many
\* redirects: a state is reached in which no redirect is pending (neither the Login
\* screen's redirect to '/', nor ProtectedRoute's to '/login', nor PublicRoute's to
\* '/'), whatever the legacy user and the platform session are.
C21_RedirectsSettle ==
  (~lgLoading /\ ~sbLoading)
    ~> ~(ENABLED LoginRedirect \/ ENABLED GuardRedirect \/ ENABLED PublicRedirect)

\* a legacy user without a platform user stands on the Login screen, neither facade
\* loading: Login's effect sends them to '/', where ProtectedRoute sends them back
C21_Witness ==
  /\ ~lgLoading /\ ~sbLoading
  /\ lgUser # Null /\ sbUser = Null /\ sbSession = Null
  /\ location = LoginPath
  /\ lgOps["login"].req = "none"
  /\ ENABLED LoginRedirect

\* C22: each time the provider access modal is opened for a provider, the toggle
\* values it shows (and would write on 'Save Changes') equal the permissions that
\* provider is listed with at that moment, also when the modal was opened before and
\* was closed with Cancel after unsaved toggles.
C22_OpenShowsCurrentPermissions ==
  [][(~isModalOpen /\ isModalOpen')
       => modal'.currentPermissions =
            (IF page = "consent" THEN providers'[selectedProvider'].permissions
             ELSE providersList'[selectedProvider'].permissions)]_vars

\* the modal has been closed and, still mounted, keeps toggle values the list does
\* not show: the next opening starts from them
C22_Witness ==
  /\ ~isModalOpen
  /\ modal.mounted
  /\ sv.pc = "idle"
  /\ selectedProvider \in listedIds
  /\ modal.currentPermissions # listed(selectedProvider).permissions

\* C23: while at least one operation of the legacy facade is in flight (request
\* sent, response not yet handled) the facade's loading flag is true.
C23_LoadingWhileInFlight ==
  (\E op \in LegacyOps : lgOps[op].req = "inflight") => lgLoading

\* two operations overlapped and one of them has completed: the other is still in
\* flight, its timer has not fired, and loading is false
C23_Witness ==
  /\ lgOps["updateProfile"].req = "inflight"
  /\ lgOps["updateProfile"].timer = "armed"
  /\ lgOps["login"].req = "none"
  /\ lgUser = LoginUser
  /\ lgError = ""
  /\ ~lgLoading

\* C24: on the Login screen in register mode, the success message is set (and the
\* fields cleared) only if the platform sign-up succeeded: a step that settles a
\* sign-up and sets the success message leaves no facade error.
C24_SuccessOnlyAfterSignUp ==
  [][(sbOps["signUp"] = "inflight" /\ sbOps'["signUp"] = "idle"
        /\ submitSuccess' = RegisteredMsg)
       => sbError' = Null]_vars

\* a failed sign-up has just settled: the facade holds its error, and handleSubmit has
\* set the success message all the same
C24_Witness ==
  /\ sbOps["signUp"] = "idle"
  /\ submitSuccess = RegisteredMsg
  /\ sbError = "User already registered"

\* C25: toggleReminder flips the toggle at once; when the platform update or the
\* legacy update succeeds the toggle is left as it is; when both fail the toggle ends
\* at its value from before the call (the opposite of the call's new value); no step
\* changes one of the other two toggles.
C25_ToggleRevertsOnDualFailure ==
  [][\A c \in 1..MaxCalls :
       /\ \A id \in Toggles :
            ToggleReminder(c, id)
              => /\ reminderToggles'[id] = ~reminderToggles[id]
                 /\ \A j \in Toggles \ {id} : reminderToggles'[j] = reminderToggles[j]
       /\ (tr[c].pc # "idle" /\ tr'[c].pc = "idle")
            => /\ alert' # ReminderAlert => reminderToggles' = reminderToggles
               /\ alert' = ReminderAlert
                    => reminderToggles'[tr[c].id] = ~tr[c].newValue
               /\ \A j \in Toggles \ {tr[c].id} :
                    reminderToggles'[j] = reminderToggles[j]]_vars

\* a call that turned the email reminder off waits for the legacy update, while a
\* later call, already settled, has turned the reminder on again
C25_Witness ==
  /\ tr[1] = [pc |-> "legacy", id |-> "email", newValue |-> FALSE]
  /\ tr[2] = [pc |-> "idle", id |-> "email", newValue |-> TRUE]
  /\ reminderToggles["email"]

\* C26: in the provider access modal a consent record is deleted only after two
\* presses of the remove button with no Cancel in between.  The first press only
\* enters the confirming state: it deletes nothing and starts no call.  A removal
\* call starts only from the confirming state of the open modal, and only a removal
\* call takes a record out of the table.  Cancel while confirming leaves the
\* confirming state, keeps the modal open and deletes nothing.  "Save Changes" does
\* not start while confirming.
C26_RemovalNeedsConfirmation ==
  [][/\ (~modal.confirmingDelete /\ modal'.confirmingDelete)
          => /\ consents' = consents /\ providerRows' = providerRows
             /\ sv' = sv /\ isModalOpen'
     /\ (sv.pc = "idle" /\ sv'.pc \in {"d_getUser", "d_delete", "pd_getUser", "pd_delete"})
          => /\ modal.confirmingDelete /\ isModalOpen
             /\ consents' = consents
     /\ (\E p \in ProviderIds : hasRow(consents, p) /\ ~hasRow(consents', p))
          => sv.pc \in {"d_delete", "pd_delete", "pd_provider"}
     /\ (modal.confirmingDelete /\ ModalCancel)
          => /\ ~modal'.confirmingDelete /\ isModalOpen'
             /\ consents' = consents /\ sv' = sv
     /\ ModalSaveStart => ~modal.confirmingDelete]_vars

\* after the confirming press the modal is about to delete a record that exists
C26_Witness ==
  /\ sv.pc = "d_delete"
  /\ hasRow(consents, sv.providerId)
  /\ isModalOpen
  /\ modal.loading
  /\ modal.confirmingDelete

\* C27: Providers.handleDeleteProvider deletes a provider row and its
\* provider_data_types rows only if the signed-in user is the provider's owner: it
\* sends those deletes only for a provider it owns, and a step that removes such rows
\* is a step of the owner's removal of that provider.  For a user who is not the
\* owner no step removes the provider row, its data types or another user's consent
\* record: the only record that can go is the user's own.
C27_OnlyOwnerDeletesProvider ==
  [][/\ sv'.pc \in {"pd_types", "pd_provider"}
          => /\ page = "providers"
             /\ providerOwner[sv'.providerId] = "me"
     /\ \A p \in ProviderIds :
          (\/ (p \in providerRows /\ p \notin providerRows')
           \/ (p \in providerDataTypes /\ p \notin providerDataTypes')
           \/ (p \in otherConsents /\ p \notin otherConsents'))
            => /\ providerOwner[p] = "me"
               /\ sv.pc \in {"pd_types", "pd_provider"}
               /\ sv.providerId = p
     /\ providerOwner' = providerOwner]_vars

\* on the Providers page a user who does not own the provider has removed it from
\* their list: their own record is gone, and the handler has passed its owner check
C27_Witness ==
  /\ page = "providers"
  /\ sv.pc = "pd_fetch"
  /\ providerOwner[sv.providerId] = "other"
  /\ sv.providerId \in providerRows
  /\ sv.providerId \in otherConsents
  /\ sv.providerId \in providerDataTypes
  /\ ~hasRow(consents, sv.providerId)

\* C28: resendVerification is rate limited per email address.  Two requests for
\* the same address that both succeed at the API were sent at least cooldownPeriod
\* apart; a call inside the cooldown throws without sending a request; a request
\* that fails at the API leaves the stored times as they are.
C28_ResendIsRateLimited ==
  [][\A c \in 1..MaxResends :
       /\ (/\ rs[c].pc = "inflight" /\ rs'[c].pc = "idle"
           /\ settlement'.how = "returned"
           /\ rs[c].email \in DOMAIN delivered)
            => \/ rs[c].at >= delivered[rs[c].email] + cooldownPeriod
               \/ delivered[rs[c].email] >= rs[c].at + cooldownPeriod
       /\ \A e \in ResendEmails :
            (/\ ResendVerification(c, e)
             /\ e \in DOMAIN stamps /\ clock - stamps[e] < cooldownPeriod)
              => /\ rs' = rs
                 /\ settlement' = [call |-> "resendVerification", how |-> "thrown"]
       /\ (/\ rs[c].pc = "inflight" /\ rs'[c].pc = "idle"
           /\ settlement'.how = "thrown")
            => stamps' = stamps]_vars

\* two requests for the same address, sent at the same time, are in flight, and no
\* time is stored for the address yet
C28_Witness ==
  /\ rs[1] = [pc |-> "inflight", email |-> "ann@example.com", at |-> 0]
  /\ rs[2] = [pc |-> "inflight", email |-> "ann@example.com", at |-> 0]
  /\ "ann@example.com" \notin DOMAIN stamps

\* C29: when the legacy facade's mount check has run, either 'token' and 'user' are
\* both in storage and the facade's user is the stored snapshot, or both keys are
\* absent and the user is null; a token that was stored without a snapshot is gone.
C29_MountCheckLeavesPairOrNothing ==
  [][(lgInit = "pending" /\ lgInit' = "done")
       => /\ \/ /\ storage'["token"] # Absent /\ storage'["user"] # Absent
                /\ lgUser' = storage'["user"]
             \/ /\ storage'["token"] = Absent /\ storage'["user"] = Absent
                /\ lgUser' = Null
          /\ (storage["token"] # Absent /\ storage["user"] = Absent)
               => storage'["token"] = Absent
          /\ ~lgLoading']_vars

\* the check has run on a storage that held a token and a snapshot, and has made
\* the snapshot the facade's user (no operation has been called)
C29_Witness ==
  /\ lgInit = "done"
  /\ storage["token"] = LoginToken
  /\ storage["user"] = LoginUser
  /\ lgUser = LoginUser
  /\ ~lgLoading
  /\ lgError = Null
  /\ \A op \in LegacyOps : lgOps[op] = IdleOp

\* C30: in every reachable state of the platform facade the user is non-null exactly
\* when the session is non-null, and is then the session's user, whatever the
\* initial session check answers and however sign-ins and expiries follow it.
C30_UserIffSession ==
  /\ (sbUser # Null) <=> (sbSession # Null)
  /\ sbUser = userOf(sbSession)

\* the initial check has run, a sign-in has been notified, and so has the end of
\* that session
C30_Witness ==
  /\ sbInit = "done"
  /\ sbSubscribed
  /\ storage["supabase_auth_token"] = AccessToken
  /\ ~clientSession
  /\ sbSession = Null
  /\ sbUser = Null
====
